---- MODULE Spec2Model ----
(***************************************************************************)
(* A model of timeline-kit: the Timecode value type (src/chrono) and the   *)
(* Pro Tools EDL text parser (src/edl/protools).                           *)
(*                                                                         *)
(* Strings are TLA+ strings; the string helpers below do what the Rust     *)
(* std functions used by the source do (find, split, trim, parse).         *)
(***************************************************************************)
EXTENDS Integers, Sequences, FiniteSets

VARIABLES
    \* ---- Timecode under test (src/chrono/timecode.rs) ----
    tc_input,       \* the arguments drawn for the constructor call
    tc_op,          \* the last Timecode operation applied
    tc_arg_fps,     \* the frame-rate argument of the last call taking one
    tc_status,      \* "none" | "Ok" | "Err" | "Panic": outcome of the constructor
    timecode,       \* the Timecode value
    ticks,          \* result of the last to_ticks call on timecode
    timecode_b,     \* a second Timecode of the same frame rate (ordering)
    ticks_b,        \* result of the last to_ticks call on timecode_b
    displayed,      \* the string the last Display::fmt call wrote for timecode
    \* ---- EDLParser::parse (src/edl/protools/parser.rs) ----
    input_file,     \* what the file at input_path holds (its description)
    all_lines,      \* the lines of the file not yet read
    edl_parser,     \* the EDLParser value
    edl_session,    \* the EDLSession under construction
    current_track,  \* Option<EDLTrack>: the track under construction
    parse_status,   \* "idle" | "Running" | "Ok" | "Err" | "Panic"
    parse_result,   \* Option<Result<EDLSession, String>>: what parse returned
    decisions,      \* (current_section, skip_line, reset_section) of each line read
    second_parse    \* a second call of parse: its file, its lines left and its locals

tc_vars ==
    <<tc_input, tc_op, tc_arg_fps, tc_status, timecode, ticks, timecode_b, ticks_b,
      displayed>>

parser_vars ==
    <<input_file, all_lines, edl_parser, edl_session, current_track, parse_status,
      parse_result, decisions, second_parse>>

vars == <<tc_input, tc_op, tc_arg_fps, tc_status, timecode, ticks, timecode_b, ticks_b,
          displayed,
          input_file, all_lines, edl_parser, edl_session, current_track, parse_status,
          parse_result, decisions, second_parse>>

(***************************************************************************)
(* String helpers (Rust std::str).  Indices returned to the caller are     *)
(* 0-based byte offsets as in Rust; -1 stands for None.                    *)
(***************************************************************************)
Char(s, i) == SubSeq(s, i, i)

RECURSIVE FindFrom(_, _, _)
FindFrom(s, pat, i) ==
    IF i + Len(pat) - 1 > Len(s) THEN -1
    ELSE IF SubSeq(s, i, i + Len(pat) - 1) = pat THEN i - 1
    ELSE FindFrom(s, pat, i + 1)

\* str::find(pat): offset of the first match, -1 for None
StrFind(s, pat) == FindFrom(s, pat, 1)

\* str::contains(pat)
StrContains(s, pat) == StrFind(s, pat) >= 0

RECURSIVE SplitFrom(_, _, _, _)
SplitFrom(s, pat, start, i) ==
    IF i + Len(pat) - 1 > Len(s) THEN << SubSeq(s, start, Len(s)) >>
    ELSE IF SubSeq(s, i, i + Len(pat) - 1) = pat
         THEN << SubSeq(s, start, i - 1) >>
              \o SplitFrom(s, pat, i + Len(pat), i + Len(pat))
         ELSE SplitFrom(s, pat, start, i + 1)

\* str::split(&str): the pieces between the matches, at least one piece
StrSplit(s, pat) == SplitFrom(s, pat, 1, 1)

RECURSIVE SplitCharsFrom(_, _, _, _)
SplitCharsFrom(s, chars, start, i) ==
    IF i > Len(s) THEN << SubSeq(s, start, Len(s)) >>
    ELSE IF Char(s, i) \in chars
         THEN << SubSeq(s, start, i - 1) >> \o SplitCharsFrom(s, chars, i + 1, i + 1)
         ELSE SplitCharsFrom(s, chars, start, i + 1)

\* str::split([char; N]): split at every character of the set
StrSplitChars(s, chars) == SplitCharsFrom(s, chars, 1, 1)

DigitValue(c) == StrFind("0123456789", c)

RECURSIVE ParseDigits(_, _, _, _)
ParseDigits(s, i, acc, max) ==
    IF i > Len(s) THEN acc
    ELSE LET d == DigitValue(Char(s, i)) IN
         IF d < 0 THEN -1
         ELSE IF acc > (max - d) \div 10 THEN -1
         ELSE ParseDigits(s, i + 1, acc * 10 + d, max)

\* str::parse::<uN>() with uN::MAX = max: the value, or -1 for Err.
\* An optional leading '+' is accepted, '-' and the empty string are not.
ParseUnsigned(s, max) ==
    IF Len(s) = 0 THEN -1
    ELSE IF Len(s) = 1 /\ s \in {"+", "-"} THEN -1
    ELSE IF Char(s, 1) = "+" THEN ParseDigits(s, 2, 0, max)
    ELSE ParseDigits(s, 1, 0, max)

RECURSIVE BitAnd(_, _)
BitAnd(a, b) ==
    IF a = 0 \/ b = 0 THEN 0
    ELSE (a % 2) * (b % 2) + 2 * BitAnd(a \div 2, b \div 2)

BitOr(a, b) == a + b - BitAnd(a, b)

(***************************************************************************)
(* FrameRate (src/format/video_format.rs)                                  *)
(***************************************************************************)
Fps24(is_dropframe) == [variant |-> "Fps24", drop |-> is_dropframe]
Fps25 == [variant |-> "Fps25", drop |-> FALSE]
Fps30(is_dropframe) == [variant |-> "Fps30", drop |-> is_dropframe]
Fps48 == [variant |-> "Fps48", drop |-> FALSE]
Fps50 == [variant |-> "Fps50", drop |-> FALSE]
Fps60(is_dropframe) == [variant |-> "Fps60", drop |-> is_dropframe]
Fps120 == [variant |-> "Fps120", drop |-> FALSE]

FrameRate ==
    {Fps24(TRUE), Fps24(FALSE), Fps25, Fps30(TRUE), Fps30(FALSE),
     Fps48, Fps50, Fps60(TRUE), Fps60(FALSE), Fps120}

FrameRateDefault == Fps25

\* FrameRate::as_float, in thousandths (23.976 is 23976)
as_float(fps) ==
    CASE fps.variant = "Fps24"  -> IF fps.drop THEN 23976 ELSE 24000
      [] fps.variant = "Fps25"  -> 25000
      [] fps.variant = "Fps30"  -> IF fps.drop THEN 29970 ELSE 30000
      [] fps.variant = "Fps48"  -> 48000
      [] fps.variant = "Fps50"  -> 50000
      [] fps.variant = "Fps60"  -> IF fps.drop THEN 59940 ELSE 60000
      [] fps.variant = "Fps120" -> 120000

\* ToPrimitive::to_usize on the float (in thousandths): truncation
to_usize(f) == f \div 1000

(***************************************************************************)
(* Timecode (src/chrono/timecode.rs)                                       *)
(***************************************************************************)
TC_TOTAL_GROUPS == 5
TC_STRING_REGULAR_GROUP_SIZE == 2
TC_TOTAL_GROUPS_MINSEC == 2
TC_REGULAR_TOTAL_GROUPS == TC_TOTAL_GROUPS - 1
TC_STRING_DELIMITER_COLON == ":"
TC_STRING_DELIMITER_SEMICOLON == ";"
TC_TICK_RESOLUTION == 100
TC_SCALAR_HOURS_INDEX == 0
TC_SCALAR_MINUTES_INDEX == 1
TC_SCALAR_SECONDS_INDEX == 2
TC_SCALAR_FRAMES_INDEX == 3
TC_SCALAR_TICKS_INDEX == 4
TC_DELIMITER_DROPFRAME_INDEX ==
    ((TC_TOTAL_GROUPS - 2) * (TC_STRING_REGULAR_GROUP_SIZE + 1)) - 1
TC_FLAGS_DEFAULT == 0
TC_FLAGS_DROPFRAME == 1
TC_SCALAR_ORDER_TABLE ==
    << TC_SCALAR_HOURS_INDEX, TC_SCALAR_MINUTES_INDEX, TC_SCALAR_SECONDS_INDEX,
       TC_SCALAR_FRAMES_INDEX, TC_SCALAR_TICKS_INDEX >>

\* TC_CONFIG_TABLE: (ticks factor, apply-fps predicate) per group
TC_CONFIG_TABLE ==
    << <<60 * 60, "True">>, <<60, "True">>, <<1, "True">>,
       <<1, "False">>, <<1, "Other">> >>

\* TimecodeScalar = u8
TimecodeScalarMax == 255

\* A default whose flags carry the drop-frame bit
TimecodeDefaultDropFrame ==
    [data |-> [i \in 1..TC_TOTAL_GROUPS |-> 0], fps |-> FrameRateDefault,
     flags |-> TC_FLAGS_DROPFRAME]

TimecodeDefault ==
    [data |-> [i \in 1..TC_TOTAL_GROUPS |-> 0], fps |-> FrameRateDefault, flags |-> 0]

check_flag(tc, flag) == BitAnd(tc.flags, flag) = flag

set_flag(tc, flag) == [tc EXCEPT !.flags = BitOr(tc.flags, flag)]

with_fps(fps) ==
    LET tc == [TimecodeDefault EXCEPT !.fps = fps] IN
    IF fps \in {Fps24(TRUE), Fps30(TRUE), Fps60(TRUE)}
    THEN set_flag(tc, TC_FLAGS_DROPFRAME)
    ELSE tc

from_parts(groups, fps) ==
    LET tc == [TimecodeDefault EXCEPT !.data = groups, !.fps = fps] IN
    IF fps \in {Fps24(TRUE), Fps30(TRUE), Fps60(TRUE)}
    THEN set_flag(tc, TC_FLAGS_DROPFRAME)
    ELSE tc

\* Result values
Ok(v) == [tag |-> "Ok", val |-> v]
Err == [tag |-> "Err"]
Panic == [tag |-> "Panic"]

\* Timecode::from_str.  The ';' test comes first; the parts iterator is then
\* consumed by count(), which runs the parse-and-expect closure on every part
\* (a panic) before the group count is tested.
from_str(tc_string, fps) ==
    LET semi == StrFind(tc_string, TC_STRING_DELIMITER_SEMICOLON)
        pieces == StrSplitChars(tc_string,
                      {TC_STRING_DELIMITER_COLON, TC_STRING_DELIMITER_SEMICOLON})
        parts == [i \in 1..Len(pieces) |-> ParseUnsigned(pieces[i], TimecodeScalarMax)]
        total_parts == Len(pieces)
        is_drop_frame == semi >= 0
        tc == [TimecodeDefault EXCEPT
                 !.fps = fps,
                 !.data = [i \in 1..TC_TOTAL_GROUPS |->
                             IF i <= total_parts THEN parts[i] ELSE 0]]
    IN  IF semi >= 0 /\ semi # TC_DELIMITER_DROPFRAME_INDEX THEN Err
        ELSE IF \E i \in 1..total_parts : parts[i] < 0 THEN Panic
        ELSE IF total_parts # TC_TOTAL_GROUPS
                /\ total_parts # TC_REGULAR_TOTAL_GROUPS
                /\ total_parts # TC_TOTAL_GROUPS_MINSEC THEN Err
        ELSE IF is_drop_frame THEN Ok(set_flag(tc, TC_FLAGS_DROPFRAME))
        ELSE Ok(tc)

RECURSIVE TicksFrom(_, _)
TicksFrom(tc, n) ==
    IF n = 0 THEN 0
    ELSE LET i == TC_SCALAR_ORDER_TABLE[n]
             scalar == tc.data[n]
             factor == TC_CONFIG_TABLE[i + 1][1]
             pred == TC_CONFIG_TABLE[i + 1][2]
             term ==
               CASE pred = "True"  ->
                      scalar * factor * to_usize(as_float(tc.fps)) * TC_TICK_RESOLUTION
                 [] pred = "False" -> scalar * factor * TC_TICK_RESOLUTION
                 [] pred = "Other" -> scalar
         IN  TicksFrom(tc, n - 1) + term

\* to_ticks with the frames group scaled by the frame rate as well (the fault
\* the tick-formula claims must detect)
to_ticks_frames_scaled(tc) ==
    TicksFrom(tc, TC_TOTAL_GROUPS)
      + tc.data[TC_SCALAR_FRAMES_INDEX + 1]
          * (to_usize(as_float(tc.fps)) - 1) * TC_TICK_RESOLUTION

\* Timecode::to_ticks
to_ticks(tc) == TicksFrom(tc, TC_TOTAL_GROUPS)

\* Timecode::set_frame_rate: only the rate is rebound
set_frame_rate(tc, fps) == [tc EXCEPT !.fps = fps]

\* Display of an unsigned integer: its decimal digits
RECURSIVE ToDecimal(_)
ToDecimal(n) ==
    IF n < 10 THEN SubSeq("0123456789", n + 1, n + 1)
    ELSE ToDecimal(n \div 10) \o SubSeq("0123456789", (n % 10) + 1, (n % 10) + 1)

\* format!("{:0>width}", s): s right-aligned, filled with '0' up to width
RECURSIVE PadLeftZero(_, _)
PadLeftZero(s, width) == IF Len(s) >= width THEN s ELSE PadLeftZero("0" \o s, width)

\* The loop of Display::fmt over data.iter().take(count).enumerate(): the
\* string built by the iterations i = 0 .. count - 1
RECURSIVE FmtGroups(_, _)
FmtGroups(tc, count) ==
    IF count = 0 THEN ""
    ELSE LET i == count - 1
             scalar == tc.data[i + 1]
             delimiter ==
                 IF i < TC_TOTAL_GROUPS - 2
                 THEN IF i = TC_SCALAR_SECONDS_INDEX /\ check_flag(tc, TC_FLAGS_DROPFRAME)
                      THEN TC_STRING_DELIMITER_SEMICOLON
                      ELSE TC_STRING_DELIMITER_COLON
                 ELSE ""
         IN  FmtGroups(tc, count - 1)
               \o PadLeftZero(ToDecimal(scalar), TC_STRING_REGULAR_GROUP_SIZE)
               \o delimiter

\* Display::fmt with the ticks group taken as well (the fault the display
\* claims must detect)
Timecode_fmt_all_groups(tc) == FmtGroups(tc, TC_TOTAL_GROUPS)

\* Display::fmt without the drop-frame delimiter
Timecode_fmt_colon_only(tc) ==
    FmtGroups([tc EXCEPT !.flags = TC_FLAGS_DEFAULT], TC_TOTAL_GROUPS - 1)

\* impl Display for Timecode: fmt
Timecode_fmt(tc) == FmtGroups(tc, TC_TOTAL_GROUPS - 1)

(***************************************************************************)
(* EDL parser types and constants (src/edl/protools/parser_types.rs; the   *)
(* EDLSection and EDLValue that parser.rs uses, with TrackEvent and Ignore *)
(* and the table values, are those of src/edl/protools_edl.rs)             *)
(***************************************************************************)
EDL_HEADER_LINE_SIZE_one_less == 8 - 1

EDL_HEADER_LINE_SIZE == 8
EDL_TRACK_LISTING_LINE_SIZE == 4
EDL_SECTION_TERMINATOR_LENGTH == 2
EDL_FIELD_PARTS_LENGTH == 2
EDL_TRACK_EVENT_VALID_COLUMN_WIDTHS == <<2, 6, 7, 8>>
EDLPARSER_MASK_SECTION_PLUGINSLISTING == 1

\* a cell buffer with as many slots as the second largest valid width
EDL_VALUE_BUFFER_SIZE_second_largest ==
    EDL_TRACK_EVENT_VALID_COLUMN_WIDTHS[Len(EDL_TRACK_EVENT_VALID_COLUMN_WIDTHS) - 1]

\* the fixed cell buffer has as many slots as the largest valid width
EDL_VALUE_BUFFER_SIZE ==
    EDL_TRACK_EVENT_VALID_COLUMN_WIDTHS[Len(EDL_TRACK_EVENT_VALID_COLUMN_WIDTHS)]

\* u32::MAX is 2^32 - 1; numbers are parsed up to 2^31 - 1, the largest integer of
\* the model checker (no input number comes near either)
U32Max == (2^30 - 1) + 2^30

None == [tag |-> "None"]
Some(v) == [tag |-> "Some", val |-> v]

\* EDLSection::all_variants
EDLSectionAllVariants ==
    << "Header", "PluginsListing", "OnlineFiles", "OfflineFiles", "OnlineClips",
       "TrackListing", "TrackEvent", "MarkersListing", "Ignore" >>

\* EDLSection::section_name
section_name(section) ==
    CASE section = "Header"         -> "__header__"
      [] section = "PluginsListing" -> "P L U G - I N S  L I S T I N G"
      [] section = "OnlineFiles"    -> "O N L I N E  F I L E S  I N  S E S S I O N"
      [] section = "OfflineFiles"   -> "O F F L I N E  F I L E S  I N  S E S S I O N"
      [] section = "OnlineClips"    -> "O N L I N E  C L I P S  I N  S E S S I O N"
      [] section = "TrackListing"   -> "T R A C K  L I S T I N G"
      [] section = "TrackEvent"     -> "__track_event__"
      [] section = "MarkersListing" -> "M A R K E R S  L I S T I N G"
      [] section = "Ignore"         -> "__ignore__"

\* EDLField::all_variants
EDLFieldAllVariants ==
    << "SessionName", "SessionSampleRate", "SessionBitDepth", "SessionStartTimecode",
       "SessionTimecodeFormat", "SessionNumAudioTracks", "SessionNumAudioClips",
       "SessionNumAudioFiles", "TrackName", "TrackComment", "TrackDelay",
       "TrackState", "Unknown" >>

\* EDLField::field_name
field_name(field) ==
    CASE field = "SessionName"           -> "SESSION NAME"
      [] field = "SessionSampleRate"     -> "SAMPLE RATE"
      [] field = "SessionBitDepth"       -> "BIT DEPTH"
      [] field = "SessionStartTimecode"  -> "SESSION START TIMECODE"
      [] field = "SessionTimecodeFormat" -> "TIMECODE FORMAT"
      [] field = "SessionNumAudioTracks" -> "# OF AUDIO TRACKS"
      [] field = "SessionNumAudioClips"  -> "# OF AUDIO CLIPS"
      [] field = "SessionNumAudioFiles"  -> "# OF AUDIO FILES"
      [] field = "TrackName"             -> "TRACK NAME"
      [] field = "TrackComment"          -> "COMMENTS"
      [] field = "TrackDelay"            -> "USER DELAY"
      [] field = "TrackState"            -> "STATE"
      [] field = "Unknown"               -> "__unknown__"

\* EDLField::is_voidable
is_voidable(field) == field \in {"TrackComment", "TrackState", "Unknown"}

\* EDLValue
Field(section, field, value) ==
    [kind |-> "Field", section |-> section, field |-> field, value |-> value]
TableHeader(section, cells) == [kind |-> "TableHeader", section |-> section, cells |-> cells]
TableEntry(section, cells) == [kind |-> "TableEntry", section |-> section, cells |-> cells]

(***************************************************************************)
(* More of Rust's std::str, as the parser uses it                          *)
(***************************************************************************)
IsWhitespace(c) == c \in {" ", "\t", "\r", "\n"}

RECURSIVE TrimStart(_)
TrimStart(s) ==
    IF Len(s) > 0 /\ IsWhitespace(Char(s, 1)) THEN TrimStart(Tail(s)) ELSE s

RECURSIVE TrimEnd(_)
TrimEnd(s) ==
    IF Len(s) > 0 /\ IsWhitespace(Char(s, Len(s)))
    THEN TrimEnd(SubSeq(s, 1, Len(s) - 1))
    ELSE s

\* str::trim
Trim(s) == TrimEnd(TrimStart(s))

EndsWith(s, suffix) ==
    Len(s) >= Len(suffix) /\ SubSeq(s, Len(s) - Len(suffix) + 1, Len(s)) = suffix

\* str::strip_suffix(suffix).unwrap_or(s)
StripSuffixOr(s, suffix) ==
    IF EndsWith(s, suffix) THEN SubSeq(s, 1, Len(s) - Len(suffix)) ELSE s

IsDigits(s) == Len(s) > 0 /\ \A i \in 1..Len(s) : DigitValue(Char(s, i)) >= 0

\* str::parse::<f32>() for decimal notation (sign, digits, at most one '.';
\* exponents, "inf" and "nan" are not among the inputs): Ok(the value in
\* thousandths, truncated) or Err
ParseF32(s) ==
    LET neg == Len(s) > 0 /\ Char(s, 1) = "-"
        body == IF Len(s) > 0 /\ Char(s, 1) \in {"+", "-"} THEN Tail(s) ELSE s
        halves == StrSplit(body, ".")
        int == halves[1]
        frac == IF Len(halves) = 2 THEN halves[2] ELSE ""
        wellformed ==
            /\ Len(halves) <= 2
            /\ Len(int) + Len(frac) > 0
            /\ int = "" \/ IsDigits(int)
            /\ frac = "" \/ IsDigits(frac)
        frac3 == SubSeq(frac \o "000", 1, 3)
        magnitude ==
            (IF int = "" THEN 0 ELSE ParseDigits(int, 1, 0, U32Max \div 1000 - 1)) * 1000
              + ParseDigits(frac3, 1, 0, 999)
    IN  IF ~wellformed THEN Err
        ELSE Ok(IF neg THEN 0 - magnitude ELSE magnitude)

(***************************************************************************)
(* EDLParser (src/edl/protools/parser.rs): the private implementation      *)
(***************************************************************************)
\* EDLParser { current_section: Header, section_ended: false, ..default() }
EDLParserNew ==
    [ section_flags |-> 0,
      file_position |-> 0,
      section_position |-> 0,
      trailing_new_lines |-> 0,
      current_section |-> "Header",
      previous_section |-> "Ignore",
      section_ended |-> FALSE ]

\* An enable_section that raises no flag
enable_section_no_flag(self, section) == self

\* EDLParser::enable_section
enable_section(self, section) ==
    IF section = "PluginsListing"
    THEN [self EXCEPT !.section_flags =
                BitOr(self.section_flags, EDLPARSER_MASK_SECTION_PLUGINSLISTING)]
    ELSE self

\* A section size that the PLUG-INS LISTING flag does not change
get_section_size_without_flag(self, SECTION) ==
    IF SECTION = "TrackListing" THEN 4 ELSE 0

\* EDLParser::get_section_size::<SECTION>
get_section_size(self, SECTION) ==
    IF SECTION = "TrackListing"
    THEN IF BitAnd(self.section_flags, EDLPARSER_MASK_SECTION_PLUGINSLISTING)
              = EDLPARSER_MASK_SECTION_PLUGINSLISTING
         THEN 5
         ELSE 4
    ELSE 0

\* EDLParser::is_valid_event_table_column_width
is_valid_event_table_column_width(width) ==
    \E k \in 1..Len(EDL_TRACK_EVENT_VALID_COLUMN_WIDTHS) :
        width = EDL_TRACK_EVENT_VALID_COLUMN_WIDTHS[k]

\* The section variants whose name the line equals, in all_variants order
BannerMatches(line) ==
    { k \in 1..Len(EDLSectionAllVariants) : line = section_name(EDLSectionAllVariants[k]) }

FirstBanner(line) ==
    EDLSectionAllVariants[CHOOSE k \in BannerMatches(line) :
                              \A j \in BannerMatches(line) : k <= j]

\* EDLParser::check_section: the decision Some(<<section, skip, reset>>) or None,
\* with the parser as enable_section leaves it
check_section(self, line) ==
    LET Decide(d) == [self |-> self, decision |-> d] IN
    IF line = "" THEN Decide(None)
    ELSE IF self.file_position < EDL_HEADER_LINE_SIZE
         THEN Decide(Some(<<"Header", FALSE, FALSE>>))
    ELSE IF BannerMatches(line) # {}
         THEN [self |-> enable_section(self, FirstBanner(line)),
               decision |-> Some(<<FirstBanner(line), TRUE, TRUE>>)]
    ELSE IF self.section_ended
         THEN Decide(Some(<<self.current_section, TRUE, FALSE>>))
    ELSE IF self.current_section = "OnlineFiles"
         THEN Decide(Some(<<"OnlineFiles", FALSE, FALSE>>))
    ELSE IF self.current_section = "OfflineFiles"
         THEN Decide(Some(<<"OfflineFiles", FALSE, FALSE>>))
    ELSE IF self.current_section = "OnlineClips"
         THEN Decide(Some(<<"OnlineClips", FALSE, FALSE>>))
    ELSE IF self.current_section = "TrackListing"
         THEN IF self.section_position >= get_section_size(self, "TrackListing")
              THEN Decide(Some(<<"TrackEvent", FALSE, FALSE>>))
              ELSE Decide(Some(<<"TrackListing", FALSE, FALSE>>))
    ELSE IF self.current_section = "TrackEvent"
            /\ Len(StrSplit(line, "\t")) = EDL_FIELD_PARTS_LENGTH
         THEN Decide(Some(<<"TrackListing", FALSE, TRUE>>))
    ELSE IF self.current_section = "TrackEvent"
            /\ is_valid_event_table_column_width(Len(StrSplit(line, "\t")))
         THEN Decide(Some(<<"TrackEvent", FALSE, FALSE>>))
    ELSE IF self.current_section = "MarkersListing"
         THEN Decide(Some(<<"MarkersListing", FALSE, FALSE>>))
    ELSE Decide(None)

RECURSIVE ParseFieldFrom(_, _, _)
ParseFieldFrom(self, line_parts, k) ==
    IF k > Len(EDLFieldAllVariants) THEN Err
    ELSE LET field == EDLFieldAllVariants[k] IN
         IF line_parts[1] = field_name(field)
         THEN IF Len(line_parts) = EDL_FIELD_PARTS_LENGTH
              THEN Ok(Field(self.current_section, field, line_parts[2]))
              ELSE ParseFieldFrom(self, line_parts, k + 1)
         ELSE IF StrContains(line_parts[1], ":") /\ is_voidable(field)
              THEN Ok(Field(self.current_section, field, ""))
              ELSE ParseFieldFrom(self, line_parts, k + 1)

\* EDLParser::parse_edl_field
parse_edl_field(self, line) == ParseFieldFrom(self, StrSplit(line, ":\t"), 1)

\* The body shared by parse_edl_online_file, parse_edl_offline_file,
\* parse_edl_online_clip, parse_edl_track_event and parse_edl_marker_listing:
\* they differ in the SECTION whose size places the table header
ParseTableRow(self, line, SECTION) ==
    LET cells == StrSplit(line, "\t")
        value_buffer ==
            [i \in 1..EDL_VALUE_BUFFER_SIZE |->
                IF i <= Len(cells) THEN Trim(cells[i]) ELSE ""]
    IN  IF is_valid_event_table_column_width(Len(cells))
        THEN IF self.section_position > get_section_size(self, SECTION) + 1
             THEN Ok(TableEntry(self.current_section, value_buffer))
             ELSE Ok(TableHeader(self.current_section, value_buffer))
        ELSE Err

parse_edl_online_file(self, line) == ParseTableRow(self, line, "OnlineFiles")

parse_edl_offline_file(self, line) == ParseTableRow(self, line, "OfflineFiles")

parse_edl_online_clip(self, line) == ParseTableRow(self, line, "OnlineClips")

parse_edl_track_event(self, line) == ParseTableRow(self, line, "TrackListing")

parse_edl_marker_listing(self, line) == ParseTableRow(self, line, "MarkersListing")

\* select_fps_suffix testing the shorter suffix first (the order its comment
\* warns about)
select_fps_suffix_frame_first(fps_string) ==
    IF StrContains(fps_string, " Frame") THEN Some(" Frame")
    ELSE IF StrContains(fps_string, " Drop Frame") THEN Some(" Drop Frame")
    ELSE None

\* EDLParser::select_fps_suffix
select_fps_suffix(fps_string) ==
    IF StrContains(fps_string, " Drop Frame") THEN Some(" Drop Frame")
    ELSE IF StrContains(fps_string, " Frame") THEN Some(" Frame")
    ELSE None

(***************************************************************************)
(* Session data (src/edl/protools/session.rs, session_types.rs). The       *)
(* parser stores the sample rate as the parsed float (in thousandths) and  *)
(* the bit depth as the parsed integer.                                    *)
(***************************************************************************)
\* EDLSession::new
EDLSessionNew ==
    [ name |-> "",
      sample_rate |-> 0,
      bit_depth |-> 0,
      start_timecode |-> with_fps(FrameRateDefault),
      fps |-> FrameRateDefault,
      num_audio_tracks |-> 0,
      num_audio_clips |-> 0,
      num_audio_files |-> 0,
      files |-> [online_files |-> <<>>, offline_files |-> <<>>, online_clips |-> <<>>],
      markers |-> <<>>,
      plugins |-> <<>>,
      tracks |-> <<>> ]

\* EDLTrack::with_name
EDLTrack_with_name(name) ==
    [name |-> name, comment |-> "", delay |-> 0, plugins |-> <<>>, events |-> <<>>]

\* EDLMediaFile::new
EDLMediaFile_new(file_name, location) == [file_name |-> file_name, location |-> location]

\* EDLClip::new
EDLClip_new(clip_name, source_file) == [clip_name |-> clip_name, source_file |-> source_file]

\* EDLUnit::from_str
EDLUnit_from_str(unit_string) ==
    LET u == Trim(unit_string) IN
    CASE u = "Bars|Beats"  -> Some("BarsBeats")
      [] u = "Feet+Frames" -> Some("FeetFrames")
      [] u = "Min:Sec"     -> Some("MinutesSeconds")
      [] u = "Samples"     -> Some("Samples")
      [] u = "Timecode"    -> Some("Timecode")
      [] OTHER             -> None

\* FrameRate::parse_field (src/format/video_format.rs)
FrameRate_parse_field(fps_string) ==
    LET f == Trim(fps_string) IN
    CASE f = "23.976 Drop Frame" -> Some(Fps24(TRUE))
      [] f = "24 Frame"          -> Some(Fps24(FALSE))
      [] f = "25 Frame"          -> Some(Fps25)
      [] f = "29.97 Drop Frame"  -> Some(Fps30(TRUE))
      [] f = "30 Frame"          -> Some(Fps30(FALSE))
      [] f = "48 Frame"          -> Some(Fps48)
      [] f = "50 Frame"          -> Some(Fps50)
      [] f = "59.94 Drop Frame"  -> Some(Fps60(TRUE))
      [] f = "60 Frame"          -> Some(Fps60(FALSE))
      [] f = "120 Frame"         -> Some(Fps120)
      [] OTHER                   -> None

\* SampleRate::parse_field (src/format/audio_format.rs)
SampleRate_parse_field(field_string) ==
    LET f == Trim(field_string) IN
    CASE f = "22000.000000"  -> Some("Khz22")
      [] f = "44100.000000"  -> Some("Khz44p1")
      [] f = "48000.000000"  -> Some("Khz48")
      [] f = "88200.000000"  -> Some("Khz88p2")
      [] f = "96000.000000"  -> Some("Khz96")
      [] f = "192000.000000" -> Some("Khz192")
      [] OTHER               -> None

\* BitDepth::parse_field (src/format/audio_format.rs)
BitDepth_parse_field(field_string) ==
    LET f == Trim(field_string) IN
    CASE f = "8-bit"        -> Some("Bit8")
      [] f = "16-bit"       -> Some("Bit16")
      [] f = "24-bit"       -> Some("Bit24")
      [] f = "32-bit"       -> Some("Bit32")
      [] f = "32-bit float" -> Some("Bit32Float")
      [] f = "64-bit"       -> Some("Bit64")
      [] f = "64-bit float" -> Some("Bit64Float")
      [] OTHER              -> None

\* FrameRate::from_str, which fill_session_header calls with the suffix
\* already stripped: the rate tokens of FrameRate::parse_field without their
\* " Frame" / " Drop Frame" suffix
FrameRate_from_str(rate_string) ==
    CASE rate_string = "23.976" -> Some(Fps24(TRUE))
      [] rate_string = "24"     -> Some(Fps24(FALSE))
      [] rate_string = "25"     -> Some(Fps25)
      [] rate_string = "29.97"  -> Some(Fps30(TRUE))
      [] rate_string = "30"     -> Some(Fps30(FALSE))
      [] rate_string = "48"     -> Some(Fps48)
      [] rate_string = "50"     -> Some(Fps50)
      [] rate_string = "59.94"  -> Some(Fps60(TRUE))
      [] rate_string = "60"     -> Some(Fps60(FALSE))
      [] rate_string = "120"    -> Some(Fps120)
      [] OTHER                  -> None

\* From<(&[&str; 8], FrameRate)> for the track event: Ok(event), or Panic
\* where an expect fails
EDLTrackEvent_from(event_values, frame_rate) ==
    LET state_index == Len(EDL_TRACK_EVENT_VALID_COLUMN_WIDTHS) - 1
        channel == ParseUnsigned(event_values[1], U32Max)
        event == ParseUnsigned(event_values[2], U32Max)
        time_in == from_str(event_values[4], frame_rate)
        time_out == from_str(event_values[5], frame_rate)
    IN  IF channel < 0 \/ event < 0 THEN Panic
        ELSE IF time_in.tag # "Ok" \/ time_out.tag # "Ok" THEN Panic
        ELSE Ok([ channel |-> channel,
                  event |-> event,
                  name |-> event_values[3],
                  time_in |-> time_in.val,
                  time_out |-> time_out.val,
                  state |-> (event_values[state_index + 1] = "Unmuted") ])

\* EDLParser::fill_session_header: Ok(the session), or Panic where an
\* expect or unwrap fails
fill_session_header(session_, field, value) ==
    CASE field = "SessionName" -> Ok([session_ EXCEPT !.name = value])
      [] field = "SessionSampleRate" ->
            LET r == ParseF32(value) IN
            IF r.tag = "Ok" THEN Ok([session_ EXCEPT !.sample_rate = r.val]) ELSE Panic
      [] field = "SessionBitDepth" ->
            LET n == ParseUnsigned(StripSuffixOr(value, "-bit"), U32Max) IN
            IF n >= 0 THEN Ok([session_ EXCEPT !.bit_depth = n]) ELSE Panic
      [] field = "SessionStartTimecode" ->
            LET r == from_str(value, FrameRateDefault) IN
            IF r.tag = "Ok" THEN Ok([session_ EXCEPT !.start_timecode = r.val]) ELSE Panic
      [] field = "SessionTimecodeFormat" ->
            LET suffix == select_fps_suffix(value) IN
            IF suffix.tag = "None" THEN Panic
            ELSE IF ~EndsWith(value, suffix.val) THEN Panic
            ELSE LET fps == FrameRate_from_str(StripSuffixOr(value, suffix.val)) IN
                 IF fps.tag = "None" THEN Panic
                 ELSE Ok([session_ EXCEPT
                            !.fps = fps.val,
                            !.start_timecode = set_frame_rate(@, fps.val)])
      [] field = "SessionNumAudioTracks" ->
            LET n == ParseUnsigned(value, U32Max) IN
            IF n >= 0 THEN Ok([session_ EXCEPT !.num_audio_tracks = n]) ELSE Panic
      [] field = "SessionNumAudioClips" ->
            LET n == ParseUnsigned(value, U32Max) IN
            IF n >= 0 THEN Ok([session_ EXCEPT !.num_audio_clips = n]) ELSE Panic
      [] field = "SessionNumAudioFiles" ->
            LET n == ParseUnsigned(value, U32Max) IN
            IF n >= 0 THEN Ok([session_ EXCEPT !.num_audio_files = n]) ELSE Panic
      [] OTHER -> Ok(session_)

\* EDLParser::fill_online_files
fill_online_files(session_, data) ==
    IF data.kind = "TableEntry"
    THEN Ok([session_ EXCEPT !.files.online_files =
                Append(@, EDLMediaFile_new(data.cells[1], data.cells[2]))])
    ELSE IF data.kind = "TableHeader" THEN Ok(session_)
    ELSE Panic

\* EDLParser::fill_offline_files
fill_offline_files(session_, data) ==
    IF data.kind = "TableEntry"
    THEN Ok([session_ EXCEPT !.files.offline_files =
                Append(@, EDLMediaFile_new(data.cells[1], data.cells[2]))])
    ELSE IF data.kind = "TableHeader" THEN Ok(session_)
    ELSE Panic

\* EDLParser::fill_online_clips
fill_online_clips(session_, data) ==
    IF data.kind = "TableEntry"
    THEN Ok([session_ EXCEPT !.files.online_clips =
                Append(@, EDLClip_new(data.cells[1], data.cells[2]))])
    ELSE IF data.kind = "TableHeader" THEN Ok(session_)
    ELSE Panic

\* EDLParser::fill_track_listing: Ok(the track slot), or Panic
fill_track_listing(track_, field, value) ==
    IF track_.tag = "Some"
    THEN LET track == track_.val IN
         CASE field = "TrackName" -> Ok(Some([track EXCEPT !.name = value]))
           [] field = "TrackComment" -> Ok(Some([track EXCEPT !.comment = value]))
           [] field = "TrackDelay" ->
                 LET n == ParseUnsigned(StripSuffixOr(value, " Samples"), U32Max) IN
                 IF n >= 0 THEN Ok(Some([track EXCEPT !.delay = n])) ELSE Panic
           [] OTHER -> Ok(track_)
    ELSE IF field = "TrackName" THEN Ok(Some(EDLTrack_with_name(value)))
    ELSE Panic

\* EDLParser::fill_track_events: Ok(the track slot), or Panic
fill_track_events(session_, track_, data) ==
    IF data.kind = "TableHeader" THEN Ok(track_)
    ELSE IF data.kind = "TableEntry"
    THEN IF track_.tag = "Some"
         THEN LET event == EDLTrackEvent_from(data.cells, session_.fps) IN
              IF event.tag = "Ok"
              THEN Ok(Some([track_.val EXCEPT !.events = Append(@, event.val)]))
              ELSE Panic
         ELSE Panic
    ELSE Panic

\* EDLParser::fill_marker_listings: Ok(the session), or Panic
fill_marker_listings(session_, data) ==
    IF data.kind = "TableHeader" THEN Ok(session_)
    ELSE IF data.kind = "TableEntry"
    THEN LET cells == data.cells
             id == ParseUnsigned(Trim(cells[1]), U32Max)
             location == from_str(Trim(cells[2]), session_.fps)
             time_reference == ParseUnsigned(Trim(cells[3]), U32Max)
             unit == EDLUnit_from_str(Trim(cells[4]))
         IN  IF id < 0 \/ location.tag # "Ok" \/ time_reference < 0 \/ unit.tag = "None"
             THEN Panic
             ELSE Ok([session_ EXCEPT !.markers =
                        Append(@, [ id |-> id,
                                    location |-> location.val,
                                    time_reference |-> time_reference,
                                    unit |-> unit.val,
                                    name |-> Trim(cells[5]),
                                    comment |-> Trim(cells[6]) ])])
    ELSE Panic

(***************************************************************************)
(* EDLParser::parse: the steps of one iteration of the loop over the lines *)
(***************************************************************************)
\* if trimmed_line == "" { edl_parser.trailing_new_lines += 1; }
CountTrailingNewLine(self, trimmed_line) ==
    IF trimmed_line = "" THEN [self EXCEPT !.trailing_new_lines = @ + 1] ELSE self

\* A line without decision that is not skipped
SectionDecisionNotSkipped(checked) ==
    IF checked.decision.tag = "Some"
    THEN checked.decision.val
    ELSE << "Ignore", FALSE,
            checked.self.trailing_new_lines >= EDL_SECTION_TERMINATOR_LENGTH >>

\* check_section(trimmed_line).unwrap_or((Ignore, true, trailing_new_lines >= 2)):
\* <<current_section, skip_line, reset_section>>
SectionDecision(checked) ==
    IF checked.decision.tag = "Some"
    THEN checked.decision.val
    ELSE << "Ignore", TRUE,
            checked.self.trailing_new_lines >= EDL_SECTION_TERMINATOR_LENGTH >>

\* The section sentinel: a section other than Ignore becomes the current one
EnterSection(self, current_section) ==
    IF current_section # "Ignore"
    THEN [self EXCEPT !.current_section = current_section, !.section_ended = FALSE]
    ELSE [self EXCEPT !.section_ended = TRUE]

\* A reset that leaves the blank-line counter as it is
ResetSectionKeepsBlankCount(self, reset_section) ==
    IF reset_section
    THEN [self EXCEPT !.section_position = 0, !.section_ended = FALSE]
    ELSE self

\* if reset_section { section_position = 0; trailing_new_lines = 0; ... }
ResetSection(self, reset_section) ==
    IF reset_section
    THEN [self EXCEPT !.section_position = 0,
                      !.trailing_new_lines = 0,
                      !.section_ended = FALSE]
    ELSE self

\* Inside the reset: the open track is pushed and the slot cleared when the
\* parser's current section, as EnterSection left it, is TrackEvent
FlushTrack(self, session, track, reset_section) ==
    IF reset_section /\ self.current_section = "TrackEvent"
    THEN [ session |-> IF track.tag = "Some"
                       THEN [session EXCEPT !.tracks = Append(@, track.val)]
                       ELSE session,
           track |-> None ]
    ELSE [session |-> session, track |-> track]

Step(tag, parser, session, track) ==
    [tag |-> tag, parser |-> parser, session |-> session, track |-> track]

\* if !skip_line { section_position += 1; <extract and fill by section> } and
\* file_position += 1: the parser, session and track slot the iteration
\* leaves, tagged Ok, or Err where a `?` returns, or Panic
FillLine(self, session, track, current_section, skip_line, trimmed_line, line) ==
    LET parser_ == IF skip_line THEN self ELSE [self EXCEPT !.section_position = @ + 1]
        advanced == [parser_ EXCEPT !.file_position = @ + 1]
        Failed(tag) == Step(tag, parser_, session, track)
        WithSession(data, filled) ==
            IF data.tag # "Ok" THEN Failed("Err")
            ELSE IF filled.tag # "Ok" THEN Failed("Panic")
            ELSE Step("Ok", advanced, filled.val, track)
        WithTrack(data, filled) ==
            IF data.tag # "Ok" THEN Failed("Err")
            ELSE IF filled.tag # "Ok" THEN Failed("Panic")
            ELSE Step("Ok", advanced, session, filled.val)
    IN  IF skip_line THEN Step("Ok", advanced, session, track)
        ELSE IF current_section = "Header"
        THEN LET data == parse_edl_field(parser_, trimmed_line) IN
             WithSession(data, IF data.tag = "Ok"
                               THEN fill_session_header(session, data.val.field, data.val.value)
                               ELSE Err)
        ELSE IF current_section = "OnlineFiles"
        THEN LET data == parse_edl_online_file(parser_, trimmed_line) IN
             WithSession(data, IF data.tag = "Ok"
                               THEN fill_online_files(session, data.val) ELSE Err)
        ELSE IF current_section = "OfflineFiles"
        THEN LET data == parse_edl_offline_file(parser_, trimmed_line) IN
             WithSession(data, IF data.tag = "Ok"
                               THEN fill_offline_files(session, data.val) ELSE Err)
        ELSE IF current_section = "OnlineClips"
        THEN LET data == parse_edl_online_clip(parser_, trimmed_line) IN
             WithSession(data, IF data.tag = "Ok"
                               THEN fill_online_clips(session, data.val) ELSE Err)
        ELSE IF current_section = "TrackListing"
        THEN LET data == parse_edl_field(parser_, trimmed_line) IN
             WithTrack(data, IF data.tag = "Ok"
                             THEN fill_track_listing(track, data.val.field, data.val.value)
                             ELSE Err)
        ELSE IF current_section = "TrackEvent"
        THEN LET data == parse_edl_track_event(parser_, trimmed_line) IN
             WithTrack(data, IF data.tag = "Ok"
                             THEN fill_track_events(session, track, data.val)
                             ELSE Err)
        ELSE IF current_section = "MarkersListing"
        THEN LET data == parse_edl_marker_listing(parser_, line) IN
             WithSession(data, IF data.tag = "Ok"
                               THEN fill_marker_listings(session, data.val) ELSE Err)
        ELSE Step("Ok", advanced, session, track)

(***************************************************************************)
(* The input files: Pro Tools session exports built from their sections.   *)
(* A file is described by the order of the two timecode fields of the      *)
(* header, the TIMECODE FORMAT value, the blank lines after the header and *)
(* after the event rows, what follows the event rows, the one line (if     *)
(* any) that does not convert, the SAMPLE RATE and BIT DEPTH values,      *)
(* whether the event table has a TIMESTAMP column, whether the PLUG-INS    *)
(* LISTING and the file sections are present, the number of header fields  *)
(* and of track blocks, the blank lines between two track blocks, the      *)
(* single blank lines inside a table, the one row of another width and the *)
(* line that is the placeholder name of a section without banner.          *)
(***************************************************************************)
MaxBlankLines == 2

HeaderOrders == {"start_first", "format_first"}

FpsTexts ==
    { "23.976 Drop Frame", "24 Frame", "25 Frame", "29.97 Drop Frame", "30 Frame",
      "48 Frame", "50 Frame", "59.94 Drop Frame", "60 Frame", "120 Frame" }

\* the six sample-rate tokens of the export and a numeric value that is none
\* of them
SampleRateTexts ==
    { "22000.000000", "44100.000000", "48000.000000", "88200.000000", "96000.000000",
      "192000.000000", "48000.5" }

BitDepthTexts ==
    { "8-bit", "16-bit", "24-bit", "32-bit", "32-bit float", "64-bit", "64-bit float" }

\* the event table without and with its optional TIMESTAMP column
EventTables == {"plain", "timestamp"}

Tails == {"markers", "none"}

\* the lines that fill_session_header, fill_track_listing, fill_track_events
\* or fill_marker_listings cannot convert
ConversionFaults ==
    { "sample_rate", "bit_depth", "start_timecode", "timecode_format", "frame_rate",
      "num_audio_tracks", "num_audio_clips", "num_audio_files",
      "track_delay", "track_order", "event_channel", "event_timecode",
      "event_timecode_long", "orphan_event",
      "marker_id", "marker_timecode", "marker_unit" }

\* the lines that parse_edl_field or parse_edl_marker_listing cannot extract
ExtractionFaults == { "header_field", "header_banner", "marker_width" }

Faults == ConversionFaults \cup ExtractionFaults

\* the header fields of a track block: 5 with its PLUG-INS line
TrackFields == {4, 5}

TrackCounts == {1, 2}

\* where single blank lines stand between the rows of a table: once, or
\* twice with rows between the two
Gaps ==
    { "header", "files", "files_twice", "events", "events_twice", "markers", "markers_twice" }

\* the one row whose cell count is not that of its table
Widths == { "file_wide", "file_narrow", "event_narrow", "event_short", "marker_wide" }

\* the names that section_name gives the sections without banner, of either
\* EDLSection enum, as a line between two marker rows
Placeholders == { "__header__", "__track_event__", "__ignore__", "__unknown__" }

InputFile(order, fps, blanks_header, blanks_events, tail, fault) ==
    [ order |-> order, fps |-> fps, blanks_header |-> blanks_header,
      blanks_events |-> blanks_events, tail |-> tail, fault |-> fault,
      sample_rate |-> "48000.000000", bit_depth |-> "24-bit", event_table |-> "plain",
      plugins |-> FALSE, files |-> FALSE, track_fields |-> 4, tracks |-> 1,
      blanks_tracks |-> 0, gap |-> "none", width |-> "valid", placeholder |-> "none" ]

NoInputFile == InputFile("start_first", "25 Frame", 0, 0, "none", "no_file")

InputFiles ==
    { InputFile(o, f, bh, be, t, "none") :
        o \in HeaderOrders, f \in FpsTexts,
        bh \in 0..MaxBlankLines, be \in 0..MaxBlankLines, t \in Tails }
      \cup { InputFile("start_first", "25 Frame", bh, be, "markers", x) :
               bh \in 0..MaxBlankLines, be \in 0..MaxBlankLines, x \in Faults }
      \cup { [ InputFile("start_first", "25 Frame", 0, be, "markers", "none")
                  EXCEPT !.sample_rate = sr, !.bit_depth = bd, !.event_table = et ] :
               be \in 0..MaxBlankLines, sr \in SampleRateTexts, bd \in BitDepthTexts,
               et \in EventTables }
      \cup { [ InputFile("start_first", "25 Frame", 0, be, "markers", "none")
                  EXCEPT !.plugins = pl, !.track_fields = tf, !.tracks = n,
                         !.blanks_tracks = bt ] :
               be \in {0, MaxBlankLines}, pl \in BOOLEAN, tf \in TrackFields,
               n \in TrackCounts, bt \in 0..MaxBlankLines }
      \cup { [ InputFile("start_first", "25 Frame", 0, MaxBlankLines, "markers", "none")
                  EXCEPT !.files = TRUE, !.gap = g ] : g \in Gaps \cup {"none"} }
      \cup { [ InputFile("start_first", "25 Frame", 0, MaxBlankLines, "markers", "none")
                  EXCEPT !.files = TRUE, !.width = w ] : w \in Widths }
      \cup { [ InputFile("start_first", "25 Frame", 0, MaxBlankLines, "markers", "none")
                  EXCEPT !.placeholder = p ] : p \in Placeholders }

BlankLines(n) == [i \in 1..n |-> ""]

\* the value of the file's SAMPLE RATE line
SampleRateValue(file) == IF file.fault = "sample_rate" THEN "fast" ELSE file.sample_rate

\* the value of the file's BIT DEPTH line
BitDepthValue(file) == IF file.fault = "bit_depth" THEN "24 bits" ELSE file.bit_depth

\* the value of the file's TIMECODE FORMAT line
TimecodeFormatValue(file) ==
    IF file.fault = "timecode_format" THEN "25 fps"
    ELSE IF file.fault = "frame_rate" THEN "26 Frame"
    ELSE file.fps

\* the k-th single blank line among the rows of the table
GapLines(file, table, k) ==
    IF file.gap = table /\ k = 1 THEN << "" >>
    ELSE IF file.gap = table \o "_twice" THEN << "" >>
    ELSE <<>>

HeaderLines(file) ==
    LET start == IF file.fault = "start_timecode"
                 THEN "SESSION START TIMECODE:" \o "\t" \o "01:00:00"
                 ELSE "SESSION START TIMECODE:" \o "\t" \o "01:00:00:00"
        format == "TIMECODE FORMAT:" \o "\t" \o TimecodeFormatValue(file)
    IN  << IF file.fault = "header_field" THEN "SESSION"
           ELSE IF file.fault = "header_banner" THEN "T R A C K  L I S T I N G"
           ELSE "SESSION NAME:" \o "\t" \o "Demo",
           "SAMPLE RATE:" \o "\t" \o SampleRateValue(file),
           "BIT DEPTH:" \o "\t" \o BitDepthValue(file) >>
        \o GapLines(file, "header", 1)
        \o <<
           IF file.order = "start_first" THEN start ELSE format,
           IF file.order = "start_first" THEN format ELSE start,
           IF file.fault = "num_audio_tracks"
           THEN "# OF AUDIO TRACKS:" \o "\t" \o "one" ELSE "# OF AUDIO TRACKS:" \o "\t" \o "1",
           IF file.fault = "num_audio_clips"
           THEN "# OF AUDIO CLIPS:" \o "\t" \o "-2" ELSE "# OF AUDIO CLIPS:" \o "\t" \o "2",
           IF file.fault = "num_audio_files"
           THEN "# OF AUDIO FILES:" \o "\t" \o "1.5" ELSE "# OF AUDIO FILES:" \o "\t" \o "1" >>

TableRow(cells) ==
    LET RECURSIVE Join(_)
        Join(k) == IF k = 1 THEN cells[1] ELSE Join(k - 1) \o "\t" \o cells[k]
    IN  Join(Len(cells))

\* the TIMESTAMP and STATE cells of the file's event rows, by event number
EventTimestamp(event) == IF event = "1" THEN "00:00:10:00" ELSE "00:00:20:00"

EventState(event) == IF event = "2" THEN "Muted" ELSE "Unmuted"

EventTableHeader(file) ==
    IF file.event_table = "timestamp"
    THEN TableRow(<<"CHANNEL ", "EVENT   ", "CLIP NAME", "START TIME", "END TIME",
                    "DURATION", "TIMESTAMP", "STATE">>)
    ELSE TableRow(<<"CHANNEL ", "EVENT   ", "CLIP NAME", "START TIME", "END TIME",
                    "DURATION", "STATE">>)

EventRow(file, channel, event, name, time_in, time_out) ==
    IF file.event_table = "timestamp"
    THEN TableRow(<<channel, event, name, time_in, time_out, "00:00:01:00",
                    EventTimestamp(event), EventState(event)>>)
    ELSE TableRow(<<channel, event, name, time_in, time_out, "00:00:01:00",
                    EventState(event)>>)

\* the PLUG-INS field that a track block carries as its fifth header field
PlugInsField(file) == IF file.track_fields = 5 THEN << "PLUG-INS: " >> ELSE <<>>

\* the PLUG-INS LISTING section
PluginLines(file) ==
    IF file.plugins
    THEN << "P L U G - I N S  L I S T I N G",
            TableRow(<<"MANUFACTURER  ", "PLUG-IN NAME  ", "VERSION  ", "FORMAT  ",
                       "STEMS  ", "NUMBER OF INSTANCES">>),
            TableRow(<<"Avid", "EQ3 7-Band", "12.0", "AAX", "Mono / Mono", "1 active">>) >>
           \o BlankLines(EDL_SECTION_TERMINATOR_LENGTH)
    ELSE <<>>

\* the ONLINE FILES, OFFLINE FILES and ONLINE CLIPS sections
FileLines(file) ==
    IF file.files
    THEN << "O N L I N E  F I L E S  I N  S E S S I O N",
            TableRow(<<"Filename ", "Location">>),
            TableRow(<<"a.wav", "/audio/a.wav">>) >>
           \o GapLines(file, "files", 1)
           \o << TableRow(<<"b.wav", "/audio/b.wav">>),
                 IF file.width = "file_wide"
                 THEN TableRow(<<"c.wav", "/audio/c.wav", "1", "2", "3", "4">>)
                 ELSE IF file.width = "file_narrow"
                 THEN TableRow(<<"c.wav", "/audio/c.wav", "1">>)
                 ELSE TableRow(<<"c.wav", "/audio/c.wav">>) >>
           \o GapLines(file, "files", 2)
           \o (IF file.gap = "files_twice"
               THEN << TableRow(<<"d.wav", "/audio/d.wav">>) >> ELSE <<>>)
           \o BlankLines(EDL_SECTION_TERMINATOR_LENGTH)
           \o << "O F F L I N E  F I L E S  I N  S E S S I O N",
                 TableRow(<<"Filename ", "Location">>),
                 TableRow(<<"e.wav", "/audio/e.wav">>) >>
           \o BlankLines(EDL_SECTION_TERMINATOR_LENGTH)
           \o << "O N L I N E  C L I P S  I N  S E S S I O N",
                 TableRow(<<"CLIP NAME ", "Source File">>),
                 TableRow(<<"clipA", "a.wav">>),
                 TableRow(<<"clipB", "b.wav">>) >>
           \o BlankLines(EDL_SECTION_TERMINATOR_LENGTH)
    ELSE <<>>

TrackLines(file) ==
    LET name == "TRACK NAME:" \o "\t" \o "A1"
        comments == "COMMENTS:" \o "\t"
        delay == IF file.fault = "track_delay"
                 THEN "USER DELAY:" \o "\t" \o "none"
                 ELSE "USER DELAY:" \o "\t" \o "0 Samples"
    IN  << "T R A C K  L I S T I N G",
           IF file.fault = "track_order" THEN comments ELSE name,
           IF file.fault = "track_order" THEN name ELSE comments,
           delay,
           "STATE: " >>
        \o PlugInsField(file)
        \o << EventTableHeader(file),
              EventRow(file, IF file.fault = "event_channel" THEN "L" ELSE "1",
                       "1", "clipA", "01:00:00:00", "01:00:01:00") >>
        \o GapLines(file, "events", 1)
        \o << EventRow(file, "1", "2", "clipB",
                       IF file.fault = "event_timecode" THEN "01:00:02"
                       ELSE IF file.fault = "event_timecode_long" THEN "01:00:02:00:00:00"
                       ELSE "01:00:02:00",
                       "01:00:03:00") >>
        \o (IF file.width = "event_narrow"
            THEN << TableRow(<<"1", "3", "clipC">>) >>
            ELSE IF file.width = "event_short"
            THEN << TableRow(<<"1", "3", "clipC", "01:00:04:00", "01:00:05:00",
                               "00:00:01:00">>) >>
            ELSE <<>>)
        \o (IF file.gap \in {"events", "events_twice"} \/ file.width = "event_narrow"
            THEN << EventRow(file, "1", "4", "clipD", "01:00:06:00", "01:00:07:00") >>
            ELSE <<>>)
        \o GapLines(file, "events", 2)
        \o (IF file.gap = "events_twice"
            THEN << EventRow(file, "1", "5", "clipE", "01:00:08:00", "01:00:09:00") >>
            ELSE <<>>)
        \o (IF file.fault = "orphan_event"
            THEN BlankLines(EDL_SECTION_TERMINATOR_LENGTH)
                   \o [i \in 1..6 |-> EventRow(file, "1", "3", "clipC", "01:00:04:00", "01:00:05:00")]
            ELSE <<>>)
        \o (IF file.tracks = 2
            THEN BlankLines(file.blanks_tracks)
                   \o << "TRACK NAME:" \o "\t" \o "A2",
                         "COMMENTS:" \o "\t",
                         "USER DELAY:" \o "\t" \o "0 Samples",
                         "STATE: " >>
                   \o PlugInsField(file)
                   \o << EventTableHeader(file),
                         EventRow(file, "1", "1", "clipF", "01:00:10:00", "01:00:11:00") >>
            ELSE <<>>)

MarkerRow(id, name) ==
    TableRow(<<id, "01:00:00:00", "0", "Samples", name, "note">>)

MarkerLines(file) ==
    << "M A R K E R S  L I S T I N G",
       TableRow(<<"#   ", "LOCATION", "TIME REFERENCE", "UNITS", "NAME", "COMMENTS">>),
       IF file.fault = "marker_width"
       THEN TableRow(<<"1   ", "01:00:00:00", "0", "Samples", "m1">>)
       ELSE TableRow(<< IF file.fault = "marker_id" THEN "A   " ELSE "1   ",
                        IF file.fault = "marker_timecode" THEN "01;00:00:00" ELSE "01:00:00:00",
                        "0",
                        IF file.fault = "marker_unit" THEN "Frames" ELSE "Samples",
                        "m1", "note" >>) >>
      \o GapLines(file, "markers", 1)
      \o (IF file.gap \in {"markers", "markers_twice"}
          THEN << MarkerRow("2   ", "m2"), MarkerRow("3   ", "m3") >> ELSE <<>>)
      \o GapLines(file, "markers", 2)
      \o (IF file.gap = "markers_twice" THEN << MarkerRow("4   ", "m4") >> ELSE <<>>)
      \o (IF file.placeholder # "none"
          THEN << file.placeholder, MarkerRow("2   ", "m2") >> ELSE <<>>)
      \o (IF file.width = "marker_wide"
          THEN << TableRow(<<"5   ", "01:00:00:00", "0", "Samples", "m5", "note", "more">>) >>
          ELSE <<>>)

\* the lines of the file, as BufRead::lines yields them
LinesOf(file) ==
    HeaderLines(file)
      \o BlankLines(file.blanks_header)
      \o PluginLines(file)
      \o FileLines(file)
      \o TrackLines(file)
      \o BlankLines(file.blanks_events)
      \o (IF file.tail = "markers" THEN MarkerLines(file) ELSE <<>>)

(***************************************************************************)
(* EDLParser::parse as a state machine: the file is opened in the initial  *)
(* state, ParseLine is one iteration of the loop, ParseEnd the return      *)
(* after the last line.                                                    *)
(***************************************************************************)
\* A call of parse on the file at its start: the locals as parse declares
\* them
ParseCall(file, status) ==
    [ input_file |-> file,
      all_lines |-> LinesOf(file),
      edl_parser |-> EDLParserNew,
      edl_session |-> EDLSessionNew,
      current_track |-> None,
      parse_status |-> status,
      parse_result |-> None ]

NoSecondParse == [ParseCall(NoInputFile, "idle") EXCEPT !.all_lines = <<>>]

ParserIdle ==
    /\ second_parse = NoSecondParse
    /\ input_file = NoInputFile
    /\ all_lines = <<>>
    /\ edl_parser = EDLParserNew
    /\ edl_session = EDLSessionNew
    /\ current_track = None
    /\ parse_status = "idle"
    /\ parse_result = None
    /\ decisions = <<>>

(***************************************************************************)
(* Timecode calls: the arguments are drawn in the initial state, the       *)
(* actions apply the constructors and methods to them.                     *)
(***************************************************************************)
\* Scalars 0..MaxScalarSample are drawn for every group, with a few larger
\* tuples; the tick count of every sample stays below 2^31 (TLC's integers),
\* where the usize of the source (64 bits) cannot overflow.
MaxScalarSample == 1

ZeroGroups == [i \in 1..TC_TOTAL_GROUPS |-> 0]

GroupSamples ==
    [1..TC_TOTAL_GROUPS -> 0..MaxScalarSample]
      \cup { <<1, 2, 3, 4, 5>>, <<13, 12, 32, 42, 100>>, <<48, 59, 59, 23, 99>>,
             <<0, TimecodeScalarMax, TimecodeScalarMax, TimecodeScalarMax,
               TimecodeScalarMax>> }

TimecodeStrings ==
    { "00:01:02:03:04", "05:06:07:08", "09:10:11;12", "01:02:03;04", "01:02",
      "00:00:00;00;00", "00:00:00;00:07", "00;00:00:00", "00:00:00:00;00",
      "0:0:0:00;0", "00000000;00", "12:34:56", "00:00:00:00:00:00", "7",
      "", "00:00:00:xx", "256:00:00:00", "00:00::00", "+1:+2:03:04", "-1:02",
      "00:00;00;00", "13:12:32:42:99", "23:59:59:24:50", "10:20:30;15:07",
      "12:30", "1:2:3:4", "12:34:56:xx", "aa:bb", "1:2:3:4:5:x" }

TimecodeInput(kind, groups, groups_b, text, fps) ==
    [kind |-> kind, groups |-> groups, groups_b |-> groups_b, text |-> text, fps |-> fps]

NoTimecodeInput == TimecodeInput("none", ZeroGroups, ZeroGroups, "", FrameRateDefault)

TimecodeInputs ==
    { TimecodeInput("with_fps", ZeroGroups, ZeroGroups, "", f) : f \in FrameRate }
      \cup { TimecodeInput("default", ZeroGroups, ZeroGroups, "", FrameRateDefault) }
      \cup { TimecodeInput("from_parts", g, ZeroGroups, "", f) :
               g \in GroupSamples, f \in FrameRate }
      \cup { TimecodeInput("from_str", ZeroGroups, ZeroGroups, s, f) :
               s \in TimecodeStrings, f \in FrameRate }

TimecodeIdle ==
    /\ tc_op = "init"
    /\ tc_arg_fps = FrameRateDefault
    /\ tc_status = "none"
    /\ timecode = TimecodeDefault
    /\ ticks = 0
    /\ timecode_b = TimecodeDefault
    /\ ticks_b = 0
    /\ displayed = ""

InitTimecode ==
    /\ tc_input \in TimecodeInputs
    /\ TimecodeIdle
    /\ ParserIdle

CallWithFps ==
    /\ tc_op = "init"
    /\ tc_input.kind = "with_fps"
    /\ timecode' = with_fps(tc_input.fps)
    /\ tc_status' = "Ok"
    /\ tc_op' = "with_fps"
    /\ tc_arg_fps' = tc_input.fps
    /\ UNCHANGED <<tc_input, ticks, timecode_b, ticks_b, displayed>>
    /\ UNCHANGED parser_vars

\* Timecode::default()
CallDefault ==
    /\ tc_op = "init"
    /\ tc_input.kind = "default"
    /\ timecode' = TimecodeDefault
    /\ tc_status' = "Ok"
    /\ tc_op' = "default"
    /\ UNCHANGED <<tc_input, tc_arg_fps, ticks, timecode_b, ticks_b, displayed>>
    /\ UNCHANGED parser_vars

CallFromParts ==
    /\ tc_op = "init"
    /\ tc_input.kind = "from_parts"
    /\ timecode' = from_parts(tc_input.groups, tc_input.fps)
    /\ tc_status' = "Ok"
    /\ tc_op' = "from_parts"
    /\ tc_arg_fps' = tc_input.fps
    /\ UNCHANGED <<tc_input, ticks, timecode_b, ticks_b, displayed>>
    /\ UNCHANGED parser_vars

CallFromStr ==
    /\ tc_op = "init"
    /\ tc_input.kind = "from_str"
    /\ LET r == from_str(tc_input.text, tc_input.fps) IN
         /\ tc_status' = r.tag
         /\ timecode' = IF r.tag = "Ok" THEN r.val ELSE timecode
    /\ tc_op' = "from_str"
    /\ tc_arg_fps' = tc_input.fps
    /\ UNCHANGED <<tc_input, ticks, timecode_b, ticks_b, displayed>>
    /\ UNCHANGED parser_vars

CallSetFrameRate ==
    /\ tc_status = "Ok"
    /\ tc_op \in {"default", "with_fps", "from_parts", "from_str"}
    /\ \E fps \in FrameRate :
         /\ timecode' = set_frame_rate(timecode, fps)
         /\ tc_arg_fps' = fps
    /\ tc_op' = "set_frame_rate"
    /\ UNCHANGED <<tc_input, tc_status, ticks, timecode_b, ticks_b, displayed>>
    /\ UNCHANGED parser_vars

CallToTicks ==
    /\ tc_status = "Ok"
    /\ tc_op \in {"default", "with_fps", "from_parts", "from_str", "set_frame_rate"}
    /\ ticks' = to_ticks(timecode)
    /\ tc_op' = "to_ticks"
    /\ UNCHANGED <<tc_input, tc_arg_fps, tc_status, timecode, timecode_b, ticks_b, displayed>>
    /\ UNCHANGED parser_vars

\* format!("{}", timecode)
CallDisplay ==
    /\ tc_status = "Ok"
    /\ tc_op \in {"default", "with_fps", "from_parts", "from_str", "set_frame_rate"}
    /\ displayed' = Timecode_fmt(timecode)
    /\ tc_op' = "fmt"
    /\ UNCHANGED <<tc_input, tc_arg_fps, tc_status, timecode, ticks, timecode_b, ticks_b>>
    /\ UNCHANGED parser_vars

NextTimecode ==
    \/ CallDefault
    \/ CallWithFps
    \/ CallFromParts
    \/ CallFromStr
    \/ CallSetFrameRate
    \/ CallToTicks
    \/ CallDisplay

SpecTimecode == InitTimecode /\ [][NextTimecode]_vars

(***************************************************************************)
(* Ordering of two Timecodes of one frame rate: both are built from parts  *)
(* drawn from the data-model ranges, then converted to ticks.              *)
(***************************************************************************)
\* FrameRate's integer (nominal) rate, as the variant names it
NominalRate(fps) ==
    CASE fps.variant = "Fps24"  -> 24
      [] fps.variant = "Fps25"  -> 25
      [] fps.variant = "Fps30"  -> 30
      [] fps.variant = "Fps48"  -> 48
      [] fps.variant = "Fps50"  -> 50
      [] fps.variant = "Fps60"  -> 60
      [] fps.variant = "Fps120" -> 120

IsDropFrameRate(fps) == fps \in {Fps24(TRUE), Fps30(TRUE), Fps60(TRUE)}

\* The ends of every group's data-model range, and a step of one in the groups
\* that carry into the next (hours are kept low: see GroupSamples)
RangeSamples(fps) ==
    { <<h, m, sec, f, t>> :
        h \in {0, 1}, m \in {0, 1, 59}, sec \in {0, 1, 59},
        f \in {0, NominalRate(fps) - 1}, t \in {0, 99} }

\* the first Timecode's groups and the frame rate of both
OrderInputs ==
    UNION { { TimecodeInput("pair", a, ZeroGroups, "", f) : a \in RangeSamples(f) } :
              f \in FrameRate }

InitOrder ==
    /\ tc_input \in OrderInputs
    /\ TimecodeIdle
    /\ ParserIdle

CallFromPartsPair ==
    /\ tc_op = "init"
    /\ tc_input.kind = "pair"
    /\ timecode' = from_parts(tc_input.groups, tc_input.fps)
    /\ \E groups_b \in RangeSamples(tc_input.fps) :
            timecode_b' = from_parts(groups_b, tc_input.fps)
    /\ tc_status' = "Ok"
    /\ tc_op' = "from_parts_pair"
    /\ tc_arg_fps' = tc_input.fps
    /\ UNCHANGED <<tc_input, ticks, ticks_b, displayed>>
    /\ UNCHANGED parser_vars

CallToTicksPair ==
    /\ tc_op = "from_parts_pair"
    /\ ticks' = to_ticks(timecode)
    /\ ticks_b' = to_ticks(timecode_b)
    /\ tc_op' = "to_ticks_pair"
    /\ UNCHANGED <<tc_input, tc_arg_fps, tc_status, timecode, timecode_b, displayed>>
    /\ UNCHANGED parser_vars

NextOrder ==
    \/ CallFromPartsPair
    \/ CallToTicksPair

SpecOrder == InitOrder /\ [][NextOrder]_vars

(***************************************************************************)
(* The parser's specification                                              *)
(***************************************************************************)
\* What the iteration makes parse return: a `?` on a failed extraction
\* returns the error alone, with the session built so far dropped
LoopReturnsSession(step) ==
    IF step.tag = "Err" THEN Some(Ok(step.session)) ELSE None

\* What the iteration makes parse return: Err(message) where a `?` fails;
\* nothing where the loop goes on, and nothing where a panic unwinds
LoopReturn(step) ==
    IF step.tag = "Err" THEN Some(Err) ELSE None

Init ==
    /\ input_file \in InputFiles
    /\ all_lines = LinesOf(input_file)
    /\ edl_parser = EDLParserNew
    /\ edl_session = EDLSessionNew
    /\ current_track = None
    /\ parse_status = "Running"
    /\ parse_result = None
    /\ decisions = <<>>
    /\ second_parse = NoSecondParse
    /\ tc_input = NoTimecodeInput
    /\ TimecodeIdle

\* A parser whose section flags are one static shared by the calls at work
SharedFlagsParser(own, other) ==
    [own EXCEPT !.section_flags = BitOr(own.section_flags, other.section_flags)]

\* The parser a call of parse works with: edl_parser is a local of the call,
\* built anew by each call, and no static is read or written
OwnParser(own, other) == own

\* One iteration of the loop on the line: the decision taken for the line
\* and the parser, session and track slot the iteration leaves.  Each
\* intermediate value of the iteration is bound once, in program order.
LoopBody(parser, session, track, line) ==
    CHOOSE body \in
      UNION { UNION { UNION {
        { [ decision |-> decision,
            step |-> FillLine(ResetSection(entered, decision[3]),
                              flushed.session, flushed.track,
                              decision[1], decision[2], Trim(line), line) ] :
            flushed \in {FlushTrack(entered, session, track, decision[3])} } :
          entered \in {EnterSection(checked.self, decision[1])} } :
        decision \in {SectionDecision(checked)} } :
      checked \in {check_section(CountTrailingNewLine(parser, Trim(line)), Trim(line))} } :
      TRUE

\* One iteration of the loop: the line is consumed and the parser, the
\* session and the track slot are updated; a `?` or a panic ends the parse.
ParseLine ==
    /\ parse_status = "Running"
    /\ all_lines # <<>>
    /\ \E body \in {LoopBody(OwnParser(edl_parser, second_parse.edl_parser),
                              edl_session, current_track, Head(all_lines))} :
            /\ edl_parser' = body.step.parser
            /\ edl_session' = body.step.session
            /\ current_track' = body.step.track
            /\ parse_status' = IF body.step.tag = "Ok" THEN "Running" ELSE body.step.tag
            /\ parse_result' = LoopReturn(body.step)
            /\ decisions' = Append(decisions, body.decision)
    /\ all_lines' = Tail(all_lines)
    /\ UNCHANGED <<input_file, second_parse>>
    /\ UNCHANGED tc_vars

\* all_lines.next() is None: parse returns Ok(edl_session); the track slot is
\* dropped as it is
ParseEnd ==
    /\ parse_status = "Running"
    /\ all_lines = <<>>
    /\ parse_status' = "Ok"
    /\ parse_result' = Some(Ok(edl_session))
    /\ UNCHANGED <<input_file, all_lines, edl_parser, edl_session, current_track,
                   decisions, second_parse>>
    /\ UNCHANGED tc_vars

Next ==
    \/ ParseLine
    \/ ParseEnd

Spec == Init /\ [][Next]_vars

(***************************************************************************)
(* Two calls of parse at once (two threads, each with its own input path): *)
(* each call runs its loop on its own locals, and the iterations of the    *)
(* two loops interleave in any order.                                      *)
(***************************************************************************)
\* the files the two calls are given: a plain one that ends at its markers,
\* one with the PLUG-INS LISTING section, one with the file tables, one
\* whose marker row fails to extract and one whose event row panics
PairFiles ==
    { InputFile("start_first", "25 Frame", 0, MaxBlankLines, "markers", "none"),
      [ InputFile("start_first", "25 Frame", 0, MaxBlankLines, "markers", "none")
          EXCEPT !.plugins = TRUE, !.track_fields = 5 ],
      [ InputFile("start_first", "25 Frame", 0, MaxBlankLines, "markers", "none")
          EXCEPT !.files = TRUE, !.gap = "none" ],
      InputFile("start_first", "25 Frame", 0, 0, "markers", "marker_width"),
      InputFile("start_first", "25 Frame", 0, 0, "markers", "event_channel") }

InitPair ==
    /\ input_file \in PairFiles
    /\ all_lines = LinesOf(input_file)
    /\ edl_parser = EDLParserNew
    /\ edl_session = EDLSessionNew
    /\ current_track = None
    /\ parse_status = "Running"
    /\ parse_result = None
    /\ decisions = <<>>
    /\ \E file \in PairFiles : second_parse = ParseCall(file, "Running")
    /\ tc_input = NoTimecodeInput
    /\ TimecodeIdle

\* One iteration of the second call's loop
SecondParseLine ==
    /\ second_parse.parse_status = "Running"
    /\ second_parse.all_lines # <<>>
    /\ \E body \in {LoopBody(OwnParser(second_parse.edl_parser, edl_parser),
                              second_parse.edl_session, second_parse.current_track,
                              Head(second_parse.all_lines))} :
            second_parse' =
                [ second_parse EXCEPT
                    !.all_lines = Tail(@),
                    !.edl_parser = body.step.parser,
                    !.edl_session = body.step.session,
                    !.current_track = body.step.track,
                    !.parse_status = IF body.step.tag = "Ok" THEN "Running"
                                     ELSE body.step.tag,
                    !.parse_result = LoopReturn(body.step) ]
    /\ UNCHANGED <<input_file, all_lines, edl_parser, edl_session, current_track,
                   parse_status, parse_result, decisions>>
    /\ UNCHANGED tc_vars

\* The second call returns Ok(edl_session) after its last line
SecondParseEnd ==
    /\ second_parse.parse_status = "Running"
    /\ second_parse.all_lines = <<>>
    /\ second_parse' =
            [ second_parse EXCEPT
                !.parse_status = "Ok",
                !.parse_result = Some(Ok(second_parse.edl_session)) ]
    /\ UNCHANGED <<input_file, all_lines, edl_parser, edl_session, current_track,
                   parse_status, parse_result, decisions>>
    /\ UNCHANGED tc_vars

NextPair ==
    \/ ParseLine
    \/ ParseEnd
    \/ SecondParseLine
    \/ SecondParseEnd

SpecPair == InitPair /\ [][NextPair]_vars

(***************************************************************************)
(* Claims about the Timecode type                                          *)
(***************************************************************************)
\* The tick count the specification states for groups g at integer rate R
TickFormula(g, R) ==
    g[1] * 3600 * R * 100 + g[2] * 60 * R * 100 + g[3] * R * 100 + g[4] * 100 + g[5]

RECURSIVE LexLessFrom(_, _, _)
LexLessFrom(a, b, i) ==
    IF i > Len(a) THEN FALSE
    ELSE IF a[i] # b[i] THEN a[i] < b[i]
    ELSE LexLessFrom(a, b, i + 1)

\* (hours, minutes, seconds, frames, ticks) of a before that of b, lexicographically
LexLess(a, b) == LexLessFrom(a, b, 1)

\* The separator characters of a timecode string, in order
SeparatorsOf(s) ==
    LET idx == { i \in 1..Len(s) : Char(s, i) \in {":", ";"} }
        Nth[k \in 1..Cardinality(idx)] ==
            CHOOSE i \in idx : Cardinality({ j \in idx : j < i }) = k - 1
    IN  [k \in 1..Cardinality(idx) |-> Char(s, Nth[k])]

\* Some ';' of s is not the separator right before the frames (fourth) group
MisplacedSemicolon(s) ==
    \E k \in 1..Len(SeparatorsOf(s)) : SeparatorsOf(s)[k] = ";" /\ k # 3

\* C4: for a Timecode with groups (h, m, s, f, t) and a non-drop frame rate of
\* integer rate R, to_ticks returns h*3600*R*100 + m*60*R*100 + s*R*100 + f*100 + t.
C4_ToTicksNonDrop ==
    (tc_op = "to_ticks" /\ ~IsDropFrameRate(timecode.fps))
        => ticks = TickFormula(timecode.data, NominalRate(timecode.fps))

\* C4 witness: to_ticks has run on a non-drop Timecode whose five groups are
\* all non-zero and distinct.
C4_Witness ==
    /\ tc_op = "to_ticks"
    /\ timecode.fps = Fps25
    /\ timecode.data = <<1, 2, 3, 4, 5>>
    /\ ticks = 9307905

\* C5: for the drop-frame rates to_ticks uses the nominal integer rate (24, 30,
\* 60) in the tick formula, so a drop-frame Timecode has the tick count of the
\* non-drop Timecode with the same groups and nominal rate.
C5_ToTicksDropNominal ==
    (tc_op = "to_ticks" /\ IsDropFrameRate(timecode.fps))
        => /\ ticks = TickFormula(timecode.data, NominalRate(timecode.fps))
           /\ ticks = to_ticks([timecode EXCEPT !.fps.drop = FALSE])

\* C6: for a fixed frame rate and two Timecodes a, b with groups in the
\* data-model ranges, a lexicographically smaller group tuple gives a strictly
\* smaller to_ticks value.
C6_ToTicksMonotonic ==
    (tc_op = "to_ticks_pair" /\ LexLess(timecode.data, timecode_b.data))
        => ticks < ticks_b

\* C7: a Timecode produced by with_fps, from_parts or from_str has its
\* drop-frame flag set iff its frame rate is a drop-frame variant.
C7_DropFlagIffDropRate ==
    (tc_op \in {"with_fps", "from_parts", "from_str"} /\ tc_status = "Ok")
        => (check_flag(timecode, TC_FLAGS_DROPFRAME) <=> IsDropFrameRate(timecode.fps))

\* C8: after set_frame_rate(rate) the frame rate equals rate and the drop-frame
\* flag is set iff rate is a drop-frame variant.
C8_SetFrameRateRecomputesFlag ==
    tc_op = "set_frame_rate"
        => /\ timecode.fps = tc_arg_fps
           /\ check_flag(timecode, TC_FLAGS_DROPFRAME) <=> IsDropFrameRate(tc_arg_fps)

\* C10: from_str returns an error for every string with a ';' anywhere but
\* right before the frames group, also when another ';' is in the right place.
C10_MisplacedSemicolonRejected ==
    (tc_op = "from_str" /\ MisplacedSemicolon(tc_input.text)) => tc_status = "Err"

\* The groups of a timecode string: its pieces between ':' and ';'
GroupTexts(s) ==
    StrSplitChars(s, {TC_STRING_DELIMITER_COLON, TC_STRING_DELIMITER_SEMICOLON})

\* The group is a non-negative integer that fits a group scalar
ValidGroup(g) == ParseUnsigned(g, TimecodeScalarMax) >= 0

GroupValues(s) == [k \in 1..Len(GroupTexts(s)) |-> ParseUnsigned(GroupTexts(s)[k], TimecodeScalarMax)]

\* C11: from_str returns an error value, without aborting, for every string
\* whose number of ':'/';'-separated groups is not 2, 4 or 5 and for every
\* string with a group that is not a non-negative integer fitting a scalar.
C11_MalformedReturnsErr ==
    (/\ tc_op = "from_str"
     /\ \/ Len(GroupTexts(tc_input.text)) \notin {2, 4, 5}
        \/ \E k \in 1..Len(GroupTexts(tc_input.text)) :
              ~ValidGroup(GroupTexts(tc_input.text)[k]))
        => tc_status = "Err"

\* (hours, minutes, seconds, frames, ticks) that the textual shape assigns
ShapeGroups(s) ==
    LET v == GroupValues(s) IN
    CASE Len(v) = 5 -> v
      [] Len(v) = 4 -> v \o <<0>>
      [] Len(v) = 2 -> <<0, v[1], v[2], 0, 0>>
      [] OTHER -> ZeroGroups

\* C12: a string accepted by from_str gives its groups by shape: 5 groups are
\* (hours, minutes, seconds, frames, ticks), 4 groups are (hours, minutes,
\* seconds, frames) with ticks 0, and the 2 groups of mm:ss are minutes and
\* seconds with hours, frames and ticks 0.
C12_GroupsByShape ==
    (tc_op = "from_str" /\ tc_status = "Ok") => timecode.data = ShapeGroups(tc_input.text)

\* s is hh:mm:ss:ff:tt with two digits in every group
FiveTwoDigitGroups(s) ==
    /\ Len(s) = 14
    /\ \A i \in 1..14 :
          IF i % 3 = 0 THEN Char(s, i) = ":" ELSE DigitValue(Char(s, i)) >= 0

\* C13: for every frame rate and every string hh:mm:ss:ff:tt with two-digit
\* groups, the display string of the Timecode from_str builds is hh:mm:ss:ff:
\* the first four groups as written, the ticks group not rendered.
C13_DisplayOmitsTicks ==
    (/\ tc_op = "fmt"
     /\ tc_input.kind = "from_str"
     /\ FiveTwoDigitGroups(tc_input.text))
        => displayed = SubSeq(tc_input.text, 1, 11)

\* C13 witness: a five-group string parsed with a drop-frame rate has been
\* displayed without its ticks.
C13_Witness ==
    /\ tc_op = "fmt"
    /\ tc_input.kind = "from_str"
    /\ tc_input.text = "13:12:32:42:99"
    /\ tc_input.fps = Fps30(TRUE)
    /\ timecode.data = <<13, 12, 32, 42, 99>>
    /\ displayed = "13:12:32:42"

\* A group as the display shows it: at least two digits, zero-padded
TwoDigits(n) == IF n < 10 THEN "0" \o ToDecimal(n) ELSE ToDecimal(n)

\* C14: the display string is hours, minutes, seconds and frames, each
\* zero-padded to two digits, with ':' after hours and after minutes and with
\* ';' before frames if and only if the drop-frame flag is set (else ':'); a
\* drop-frame string hh:mm:ss;ff parsed with a drop-frame rate displays as
\* itself.
C14_DisplayFormat ==
    /\ tc_op = "fmt"
          => displayed =
               TwoDigits(timecode.data[1]) \o ":" \o TwoDigits(timecode.data[2]) \o ":"
                 \o TwoDigits(timecode.data[3])
                 \o (IF check_flag(timecode, TC_FLAGS_DROPFRAME) THEN ";" ELSE ":")
                 \o TwoDigits(timecode.data[4])
    /\ (/\ tc_op = "fmt"
        /\ tc_input.kind = "from_str"
        /\ IsDropFrameRate(tc_input.fps)
        /\ Len(tc_input.text) = 11
        /\ FiveTwoDigitGroups(SubSeq(tc_input.text, 1, 8) \o ":" \o SubSeq(tc_input.text, 10, 11)
                                \o ":00")
        /\ Char(tc_input.text, 9) = ";")
          => displayed = tc_input.text

\* C14 witness: the drop-frame string of the display test, parsed with a
\* drop-frame rate, has been displayed with ';' before its frames.
C14_Witness ==
    /\ tc_op = "fmt"
    /\ tc_input.text = "01:02:03;04"
    /\ tc_input.fps = Fps24(TRUE)
    /\ check_flag(timecode, TC_FLAGS_DROPFRAME)
    /\ displayed = "01:02:03;04"

(***************************************************************************)
(* Claims about EDLParser::parse                                           *)
(***************************************************************************)
ParseReturned == parse_status \in {"Ok", "Err", "Panic"}

\* The file is the header, one track of four fields and two event rows, and
\* what follows: no optional section, no second track, no blank line or row
\* of another width among the rows
PlainLayout ==
    /\ ~input_file.plugins
    /\ ~input_file.files
    /\ input_file.track_fields = 4
    /\ input_file.tracks = 1
    /\ input_file.gap = "none"
    /\ input_file.width = "valid"
    /\ input_file.placeholder = "none"

\* a file of that layout without a line that fails to convert
CleanFile ==
    /\ input_file.fault = "none"
    /\ ~EndsWith(input_file.bit_depth, " float")
    /\ PlainLayout

\* C1: for a file of 8 header lines, a TRACK LISTING banner, one track's
\* header fields, its event-table header and two event rows, then a MARKERS
\* LISTING banner with its header row and one marker row, with or without
\* blank lines between the sections, parse returns a session with exactly one
\* track holding exactly two events, and exactly one marker.
C1_TrackNotLost ==
    (ParseReturned /\ CleanFile /\ input_file.tail = "markers")
        => /\ parse_status = "Ok"
           /\ Len(edl_session.tracks) = 1
           /\ Len(edl_session.tracks[1].events) = 2
           /\ Len(edl_session.markers) = 1

\* C2: when the input ends while a track is open, that track is appended to
\* the session's tracks before parse returns: the returned session holds the
\* last track of the file with all its events even if no blank lines follow
\* its last event row.
C2_OpenTrackFlushedAtEnd ==
    /\ (parse_status = "Ok" /\ current_track.tag = "Some")
          => /\ Len(edl_session.tracks) > 0
             /\ edl_session.tracks[Len(edl_session.tracks)] = current_track.val
    /\ (parse_status = "Ok" /\ CleanFile /\ input_file.tail = "none")
          => /\ Len(edl_session.tracks) = 1
             /\ Len(edl_session.tracks[1].events) = 2

\* C3: for every file with a line whose extraction or conversion fails, parse
\* returns an error value: it neither panics nor returns a session.
C3_FailuresReturnErr ==
    (ParseReturned /\ input_file.fault \in Faults) => parse_status = "Err"

\* C9: after a successful parse the session's start timecode, every event's
\* time-in and time-out and every marker's location carry the session's frame
\* rate, whichever of SESSION START TIMECODE and TIMECODE FORMAT comes first.
C9_TimecodesCarrySessionRate ==
    parse_status = "Ok"
        => /\ edl_session.start_timecode.fps = edl_session.fps
           /\ \A t \in 1..Len(edl_session.tracks) :
                \A e \in 1..Len(edl_session.tracks[t].events) :
                    /\ edl_session.tracks[t].events[e].time_in.fps = edl_session.fps
                    /\ edl_session.tracks[t].events[e].time_out.fps = edl_session.fps
           /\ \A m \in 1..Len(edl_session.markers) :
                edl_session.markers[m].location.fps = edl_session.fps

\* The lines 1..n of the file have been processed without a failure
LinesDone(n) == parse_status # "idle" /\ edl_parser.file_position >= n

\* parse failed on line n of the file
LineFailed(n) == parse_status \in {"Err", "Panic"} /\ edl_parser.file_position = n - 1

\* The SampleRate variant a stored rate (in thousandths of a hertz) stands for
SampleRateStored(rate) ==
    CASE rate = 22000000  -> Some("Khz22")
      [] rate = 44100000  -> Some("Khz44p1")
      [] rate = 48000000  -> Some("Khz48")
      [] rate = 88200000  -> Some("Khz88p2")
      [] rate = 96000000  -> Some("Khz96")
      [] rate = 192000000 -> Some("Khz192")
      [] OTHER            -> None

\* C15: the header line SAMPLE RATE:<TAB><v> sets the session sample rate to
\* the SampleRate variant whose exact token is v; a value that is none of the
\* six tokens makes parse fail on that line: it is neither accepted nor
\* replaced by a default.
C15_SampleRateToken ==
    LinesDone(2)
        => /\ SampleRate_parse_field(SampleRateValue(input_file)).tag = "Some"
           /\ SampleRateStored(edl_session.sample_rate)
                 = SampleRate_parse_field(SampleRateValue(input_file))

\* the number of the file's TIMECODE FORMAT line
FormatLineNo == IF input_file.order = "start_first" THEN 5 ELSE 4

BitDepthStored(width) ==
    CASE width = 8  -> Some("Bit8")
      [] width = 16 -> Some("Bit16")
      [] width = 24 -> Some("Bit24")
      [] width = 32 -> Some("Bit32")
      [] width = 64 -> Some("Bit64")
      [] OTHER      -> None

\* C17: a header line BIT DEPTH:<TAB><value> is accepted for both forms
\* <n>-bit and <n>-bit float with a supported n, and sets the session bit depth
\* to the matching variant.
C17_BitDepthBothForms ==
    BitDepth_parse_field(BitDepthValue(input_file)).tag = "Some"
        => /\ ~LineFailed(3)
           /\ LinesDone(3)
                 => BitDepthStored(edl_session.bit_depth)
                      = BitDepth_parse_field(BitDepthValue(input_file))

\* Every event parsed so far: those of the open track and of the pushed tracks
ParsedEvents ==
    (IF current_track.tag = "Some"
     THEN { current_track.val.events[i] : i \in 1..Len(current_track.val.events) }
     ELSE {})
      \cup UNION { { edl_session.tracks[t].events[i] :
                       i \in 1..Len(edl_session.tracks[t].events) } :
                   t \in 1..Len(edl_session.tracks) }

\* C18: an event parsed from an 8-cell row under a header whose 7th cell is
\* TIMESTAMP has its timestamp populated from the row's 7th cell; an event
\* parsed from a 7-cell row under a header without TIMESTAMP has no timestamp
\* (absent, or the zero default).
C18_TimestampColumn ==
    parse_status # "idle"
        => \A e \in ParsedEvents :
              IF input_file.event_table = "timestamp"
              THEN /\ "timestamp" \in DOMAIN e
                   /\ e.timestamp.data = ShapeGroups(EventTimestamp(ToDecimal(e.event)))
              ELSE \/ "timestamp" \notin DOMAIN e
                   \/ e.timestamp.data = ZeroGroups

\* C19: an event's mute state is given by the STATE cell, the last cell of
\* its row: true for Muted and false for Unmuted, for 7-cell and 8-cell rows.
C19_StateFromStateCell ==
    parse_status # "idle"
        => \A e \in ParsedEvents : e.state = (EventState(ToDecimal(e.event)) = "Muted")

\* C20: when parse fails on some line the caller receives only the error: no
\* EDLSession, not even the one built from the lines before the failing line,
\* is returned.
C20_NoPartialSession ==
    /\ parse_status = "Err" => parse_result = Some(Err)
    /\ parse_status = "Panic" => parse_result = None
    /\ (parse_result.tag = "Some" /\ parse_result.val.tag = "Ok") => parse_status = "Ok"

\* C20 witness: parse has returned the error of a marker row of the wrong
\* width while the session under construction already held the header values
\* and the track slot the file's track.
C20_Witness ==
    /\ parse_status = "Err"
    /\ input_file.fault = "marker_width"
    /\ edl_session.name = "Demo"
    /\ edl_session.fps = Fps25
    /\ Len(edl_session.tracks) + (IF current_track.tag = "Some" THEN 1 ELSE 0) > 0
    /\ parse_result = Some(Err)

\* C22: a Timecode built by Timecode::default() has its five groups at
\* zero, the frame rate Fps25 and no flag set; its display is "00:00:00:00"
\* and its tick count is 0.
C22_DefaultTimecode ==
    /\ tc_op = "default" =>
          /\ \A i \in 1..TC_TOTAL_GROUPS : timecode.data[i] = 0
          /\ timecode.fps = Fps25
          /\ timecode.flags = 0
    /\ (tc_input.kind = "default" /\ tc_op = "fmt" /\ timecode.fps = Fps25) =>
          displayed = "00:00:00:00"
    /\ (tc_input.kind = "default" /\ tc_op = "to_ticks") => ticks = 0

C22_Witness ==
    /\ tc_input.kind = "default"
    /\ tc_op = "fmt"
    /\ timecode.fps = Fps25
    /\ displayed = "00:00:00:00"

\* The line about to be read, as the loop trims it
NextLine == Trim(Head(all_lines))

\* The loop has read one more line and goes on
LineRead == all_lines' # all_lines /\ parse_status' = "Running"

LastDecision == decisions[Len(decisions)]

\* A line of two tab-separated cells is about to be read in TrackEvent,
\* with a track open and no blank line just before
TwoCellLineInEvents ==
    /\ parse_status = "Running"
    /\ all_lines # <<>>
    /\ edl_parser.current_section = "TrackEvent"
    /\ ~edl_parser.section_ended
    /\ current_track.tag = "Some"
    /\ NextLine # ""
    /\ BannerMatches(NextLine) = {}
    /\ Len(StrSplit(NextLine, "\t")) = EDL_FIELD_PARTS_LENGTH

\* C23: in TrackEvent, a non-blank non-banner line of exactly 2 tab cells
\* is classified TrackListing with a position reset, and reading it appends
\* the open track to the session unchanged and opens a new track from the
\* line.
C23_NextTrackHeaderFlushes ==
    [][ (TwoCellLineInEvents /\ LineRead) =>
          /\ decisions'[Len(decisions')] = <<"TrackListing", FALSE, TRUE>>
          /\ edl_session'.tracks = Append(edl_session.tracks, current_track.val)
          /\ current_track'.tag = "Some"
          /\ current_track'.val.events = <<>> ]_vars

\* The banner of a section other than TrackListing is about to be read
\* while a track is open
BannerWithTrackOpen ==
    /\ parse_status = "Running"
    /\ all_lines # <<>>
    /\ edl_parser.file_position >= EDL_HEADER_LINE_SIZE
    /\ current_track.tag = "Some"
    /\ BannerMatches(NextLine) # {}
    /\ FirstBanner(NextLine) # "TrackListing"

\* C24: reading the banner of another section while a track is open appends
\* that track to the session and clears the slot, however many blank lines
\* came before the banner; in every state whose current section is neither
\* TrackListing nor TrackEvent no track is open.
C24_BannerFlushesTrack ==
    /\ [][ (BannerWithTrackOpen /\ LineRead) =>
              /\ edl_session'.tracks = Append(edl_session.tracks, current_track.val)
              /\ current_track' = None ]_vars
    /\ [] ( (parse_status \in {"Running", "Ok"}
              /\ edl_parser.current_section \notin {"TrackListing", "TrackEvent"})
           => current_track = None )

\* The number, from 1, of the line about to be read, and the line read
\* before it ("\t" where there is none: no trimmed line is a tab)
LineNo == Len(LinesOf(input_file)) - Len(all_lines) + 1

PreviousLine == IF LineNo > 1 THEN Trim(LinesOf(input_file)[LineNo - 1]) ELSE "\t"

BlankLineNext ==
    /\ parse_status = "Running"
    /\ all_lines # <<>>
    /\ NextLine = ""

\* C25: a blank line gives no section decision and increments the
\* blank-line counter; blank lines reset the section position only when two
\* of them are consecutive, so two single blank lines with non-blank lines
\* of the same section between them do not reset it.
C25_ResetNeedsConsecutiveBlanks ==
    [][ (BlankLineNext /\ LineRead) =>
          /\ decisions'[Len(decisions')][1] = "Ignore"
          /\ decisions'[Len(decisions')][2]
          /\ decisions'[Len(decisions')][3] => PreviousLine = ""
          /\ ~decisions'[Len(decisions')][3] =>
                /\ edl_parser'.trailing_new_lines = edl_parser.trailing_new_lines + 1
                /\ edl_parser'.section_position = edl_parser.section_position ]_vars

NonBlank(line) == Trim(line) # ""

\* The rows of the file's table under the banner: the non-blank lines from
\* the banner to the next banner (or the end), without the first of them,
\* the table's header
TableRowsOf(file, banner) ==
    LET lines == LinesOf(file)
        starts == { i \in 1..Len(lines) : Trim(lines[i]) = banner }
    IN  IF starts = {} THEN <<>>
        ELSE LET b == CHOOSE i \in starts : \A j \in starts : i <= j
                 ends == { j \in (b + 1)..Len(lines) : BannerMatches(Trim(lines[j])) # {} }
                 e == IF ends = {} THEN Len(lines)
                      ELSE (CHOOSE j \in ends : \A k \in ends : j <= k) - 1
                 body == SelectSeq(SubSeq(lines, b + 1, e), NonBlank)
             IN  IF body = <<>> THEN <<>> ELSE Tail(body)

\* The n-th cell, trimmed, of each row
CellsOf(rows, n) == [k \in 1..Len(rows) |-> Trim(StrSplit(rows[k], "\t")[n])]

\* C26: in OnlineFiles, OfflineFiles, OnlineClips and MarkersListing the
\* first non-blank row after the banner is the header and gives no record;
\* every later row of the table's width, up to the next banner, gives exactly
\* one record, in input order, rows after a blank line included.
C26_OneRecordPerRow ==
    (parse_status = "Ok" /\ input_file.fault = "none" /\ input_file.width = "valid") =>
        /\ [k \in 1..Len(edl_session.files.online_files) |->
               edl_session.files.online_files[k].file_name]
             = CellsOf(TableRowsOf(input_file, section_name("OnlineFiles")), 1)
        /\ [k \in 1..Len(edl_session.files.offline_files) |->
               edl_session.files.offline_files[k].file_name]
             = CellsOf(TableRowsOf(input_file, section_name("OfflineFiles")), 1)
        /\ [k \in 1..Len(edl_session.files.online_clips) |->
               edl_session.files.online_clips[k].clip_name]
             = CellsOf(TableRowsOf(input_file, section_name("OnlineClips")), 1)
        /\ [k \in 1..Len(edl_session.markers) |-> edl_session.markers[k].name]
             = CellsOf(TableRowsOf(input_file, section_name("MarkersListing")), 5)

TableSections == {"OnlineFiles", "OfflineFiles", "OnlineClips", "TrackEvent", "MarkersListing"}

\* The cell counts the claim gives each table
WidthsOf(section) ==
    IF section \in {"OnlineFiles", "OfflineFiles", "OnlineClips"} THEN {2}
    ELSE IF section = "MarkersListing" THEN {6}
    ELSE {7, 8}

\* The cells of the line about to be read, as its table's parse function
\* splits it (the marker table is given the untrimmed line)
NextCells ==
    IF edl_parser.current_section = "MarkersListing"
    THEN Len(StrSplit(Head(all_lines), "\t"))
    ELSE Len(StrSplit(NextLine, "\t"))

\* A row of a table is about to be read: a non-blank, non-banner line in a
\* table section, not right after a blank line, and in the event table not
\* the two-cell line that opens the next track
RowNext ==
    /\ parse_status = "Running"
    /\ all_lines # <<>>
    /\ edl_parser.file_position >= EDL_HEADER_LINE_SIZE
    /\ edl_parser.current_section \in TableSections
    /\ ~edl_parser.section_ended
    /\ NextLine # ""
    /\ BannerMatches(NextLine) = {}
    /\ ~(edl_parser.current_section = "TrackEvent" /\ NextCells = EDL_FIELD_PARTS_LENGTH)

\* C27: a row whose cell count is not in its own section's set (2 for the
\* file listings, 6 for markers, 7 or 8 for events) is neither accepted nor
\* skipped: parse fails on it with an error.
C27_WidthPerSection ==
    [][ (RowNext /\ NextCells \notin WidthsOf(edl_parser.current_section)
           /\ all_lines' # all_lines) =>
          parse_status' = "Err" ]_vars

\* A row of the event table's width is about to be read in TrackEvent
EventRowNext ==
    /\ RowNext
    /\ edl_parser.current_section = "TrackEvent"
    /\ NextCells \in WidthsOf("TrackEvent")

\* C28: an event row read while no track is open makes parse fail; after a
\* track was flushed (two blank lines inside the event table) no later row
\* of 7 or 8 cells is dropped or taken for a header.
C28_OrphanEventFails ==
    [][ (EventRowNext /\ current_track = None /\ all_lines' # all_lines) =>
          parse_status' \in {"Err", "Panic"} ]_vars

\* A non-blank, non-banner line is about to be read past the file header
TextLineNext ==
    /\ parse_status = "Running"
    /\ all_lines # <<>>
    /\ edl_parser.file_position >= EDL_HEADER_LINE_SIZE
    /\ NextLine # ""
    /\ BannerMatches(NextLine) = {}

\* The line is the first that the open track's block has classified
\* TrackEvent: the line before it was one of the track's header fields
FirstEventLineRead ==
    /\ TextLineNext
    /\ current_track.tag = "Some"
    /\ edl_parser.current_section = "TrackListing"
    /\ LineRead
    /\ decisions'[Len(decisions')][1] = "TrackEvent"

\* The line is a later row, of 7 or 8 cells, of the open track's event
\* table (the file has one track block, so the row is of that track)
LaterEventRowRead ==
    /\ TextLineNext
    /\ input_file.tracks = 1
    /\ current_track.tag = "Some"
    /\ edl_parser.current_section = "TrackEvent"
    /\ NextCells \in WidthsOf("TrackEvent")
    /\ LineRead

\* C29: within one track the first line classified TrackEvent is the
\* event-table header and gives no event; every later row of 7 or 8 cells of
\* the track is appended, in input order, to the events of the open track.
C29_HeaderThenEvents ==
    [][ /\ FirstEventLineRead => current_track' = current_track
        /\ LaterEventRowRead =>
              /\ current_track'.tag = "Some"
              /\ Len(current_track'.val.events) = Len(current_track.val.events) + 1
              /\ SubSeq(current_track'.val.events, 1, Len(current_track.val.events))
                   = current_track.val.events
              /\ current_track'.val.events[Len(current_track'.val.events)].name
                   = Trim(StrSplit(NextLine, "\t")[3]) ]_vars

\* The last line read that carried a position reset (0 where none did)
LastReset ==
    IF \E i \in 1..Len(decisions) : decisions[i][3]
    THEN CHOOSE i \in 1..Len(decisions) :
            /\ decisions[i][3]
            /\ \A j \in (i + 1)..Len(decisions) : ~decisions[j][3]
    ELSE 0

\* The lines read since that reset, its own line included, that were not
\* skipped
NonSkippedSinceReset ==
    Cardinality({ i \in LastReset..Len(decisions) : i >= 1 /\ ~decisions[i][2] })

\* The PLUG-INS LISTING banner was read before that reset
PluginsBannerSeen ==
    \E i \in 1..LastReset : decisions[i][1] = "PluginsListing"

\* The header size of a track block that the claim gives
ExpectedHeaderSize == IF PluginsBannerSeen THEN 5 ELSE 4

\* C30: after a reset that opens TrackListing, with N the expected header
\* size (4 if no PLUG-INS LISTING banner was read, 5 if one was), the first
\* N lines not skipped are classified TrackListing and the (N+1)-th is
\* classified TrackEvent: the boundary of the same track block is one line
\* later when the banner was read.
C30_HeaderSizeBoundary ==
    ( /\ LastReset >= 1
      /\ decisions[LastReset][1] = "TrackListing"
      /\ ~LastDecision[2]
      /\ NonSkippedSinceReset <= ExpectedHeaderSize + 1 ) =>
        LastDecision[1] = IF NonSkippedSinceReset <= ExpectedHeaderSize
                          THEN "TrackListing" ELSE "TrackEvent"

\* the sixth line of a five-field track block read after the PLUG-INS
\* LISTING banner is the first classified TrackEvent
C30_Witness ==
    /\ LastReset >= 1
    /\ decisions[LastReset][1] = "TrackListing"
    /\ PluginsBannerSeen
    /\ ~LastDecision[2]
    /\ NonSkippedSinceReset = 6
    /\ LastDecision[1] = "TrackEvent"
    /\ parse_status = "Running"

\* What one call of parse, run from its start to its return with no other
\* call at work, ends with: its status and what it returns
RECURSIVE ParseAloneFrom(_, _, _, _)
ParseAloneFrom(parser, session, track, lines) ==
    IF lines = <<>> THEN <<"Ok", Some(Ok(session))>>
    ELSE CHOOSE outcome \in
           { IF body.step.tag # "Ok"
             THEN <<body.step.tag, LoopReturn(body.step)>>
             ELSE ParseAloneFrom(body.step.parser, body.step.session, body.step.track,
                                 Tail(lines)) :
               body \in {LoopBody(parser, session, track, Head(lines))} } : TRUE

ParseAlone(file) == ParseAloneFrom(EDLParserNew, EDLSessionNew, None, LinesOf(file))

\* C21: two calls of parse whose iterations interleave, each on its own
\* input, return what each returns when it runs alone.
C21_CallsAreIndependent ==
    /\ ParseReturned => <<parse_status, parse_result>> = ParseAlone(input_file)
    /\ second_parse.parse_status \in {"Ok", "Err", "Panic"} =>
          <<second_parse.parse_status, second_parse.parse_result>>
            = ParseAlone(second_parse.input_file)

\* both calls have returned, one having read the PLUG-INS LISTING banner in
\* its file and the other not, each with a session
C21_Witness ==
    /\ parse_status = "Ok"
    /\ second_parse.parse_status = "Ok"
    /\ input_file.plugins
    /\ ~second_parse.input_file.plugins
    /\ parse_result # second_parse.parse_result
    /\ Len(parse_result.val.val.tracks) = 1

\* The PLUG-INS LISTING banner is among the lines read so far
PluginsBannerRead ==
    \E i \in 1..Len(decisions) : decisions[i][1] = "PluginsListing"

PluginsFlagSet ==
    BitAnd(edl_parser.section_flags, EDLPARSER_MASK_SECTION_PLUGINSLISTING)
        = EDLPARSER_MASK_SECTION_PLUGINSLISTING

\* C31: once a PLUG-INS LISTING banner has been classified the plugins flag
\* stays set for the rest of the parse, and the expected TrackListing header
\* size is 5 exactly when the flag is set (the banner was read) and 4
\* otherwise.
C31_PluginsFlagSticky ==
    /\ [] (PluginsFlagSet <=> PluginsBannerRead)
    /\ [] (get_section_size(edl_parser, "TrackListing")
             = IF PluginsBannerRead THEN 5 ELSE 4)
    /\ [][PluginsFlagSet => PluginsFlagSet']_vars

\* the parse has returned, through the later sections, with the flag still
\* set
C31_Witness ==
    /\ parse_status = "Ok"
    /\ PluginsBannerRead
    /\ PluginsFlagSet
    /\ edl_parser.current_section = "MarkersListing"
    /\ get_section_size(edl_parser, "TrackListing") = 5

\* The six letter-spaced banners, by the section each names
BannerSections ==
    { "PluginsListing", "OnlineFiles", "OfflineFiles", "OnlineClips", "TrackListing",
      "MarkersListing" }

\* One of the six banners is about to be read past the file header
BannerNext ==
    /\ parse_status = "Running"
    /\ all_lines # <<>>
    /\ edl_parser.file_position >= EDL_HEADER_LINE_SIZE
    /\ \E section \in BannerSections : NextLine = section_name(section)

NamedSection == CHOOSE section \in BannerSections : NextLine = section_name(section)

\* C32: a line at file position 8 or later that equals a section banner
\* opens the named section whatever the current section, the sentinel and
\* the blank-line count: the line is skipped and gives no field or row, the
\* current section becomes the named one, and the section position, the
\* blank-line counter and the sentinel are reset.
C32_BannerOpensSection ==
    [][ (BannerNext /\ all_lines' # all_lines) =>
          /\ parse_status' = "Running"
          /\ decisions'[Len(decisions')] = <<NamedSection, TRUE, TRUE>>
          /\ edl_parser'.current_section = NamedSection
          /\ edl_parser'.section_position = 0
          /\ edl_parser'.trailing_new_lines = 0
          /\ edl_parser'.section_ended = FALSE
          /\ edl_parser'.file_position = edl_parser.file_position + 1
          /\ [edl_session' EXCEPT !.tracks = edl_session.tracks] = edl_session
          /\ current_track' \in {current_track, None} ]_vars

\* the MARKERS banner was read right after a single blank line, with the
\* sentinel active and the blank-line count at 1, in the event table
C32_Witness ==
    /\ Len(decisions) >= 3
    /\ LastDecision = <<"MarkersListing", TRUE, TRUE>>
    /\ decisions[Len(decisions) - 1] = <<"Ignore", TRUE, FALSE>>
    /\ decisions[Len(decisions) - 2][1] = "TrackEvent"
    /\ edl_parser.current_section = "MarkersListing"
    /\ edl_parser.section_position = 0
    /\ edl_parser.trailing_new_lines = 0
    /\ ~edl_parser.section_ended

\* C33: every non-blank line at file position 0 to 7 (blank lines count in
\* the position) is classified Header, not skipped and without reset,
\* whatever it holds, and is handed to field extraction; no line at file
\* position 8 or later is classified that way.
C33_HeaderBudget ==
    [][ (parse_status = "Running" /\ all_lines # <<>> /\ all_lines' # all_lines) =>
          /\ (NextLine # "" /\ edl_parser.file_position < 8) =>
                /\ decisions'[Len(decisions')] = <<"Header", FALSE, FALSE>>
                /\ parse_edl_field(edl_parser, NextLine).tag # "Ok" =>
                      parse_status' = "Err"
                /\ parse_status' = "Running" =>
                      edl_parser'.section_position = edl_parser.section_position + 1
          /\ edl_parser.file_position >= 8 =>
                decisions'[Len(decisions')] # <<"Header", FALSE, FALSE>> ]_vars

\* the eighth line of a header with a blank line inside has been read as a
\* header field at file position 7, and the ninth is about to be read
C33_Witness ==
    /\ input_file.gap = "header"
    /\ parse_status = "Running"
    /\ edl_parser.file_position = 8
    /\ LastDecision = <<"Header", FALSE, FALSE>>
    /\ decisions[4][1] = "Ignore"
    /\ edl_parser.section_position = 7

\* C34: with the section-ended sentinel active, a non-blank, non-banner line
\* at file position 8 or later is classified as the current section with
\* skip and without reset, gives no field or row, and leaves the parser as
\* it was but for the file position: the current section, the section
\* position, the blank-line counter and the sentinel do not change.
C34_SentinelSkipChangesNothing ==
    [][ (TextLineNext /\ edl_parser.section_ended /\ all_lines' # all_lines) =>
          /\ decisions'[Len(decisions')] = <<edl_parser.current_section, TRUE, FALSE>>
          /\ parse_status' = "Running"
          /\ edl_session' = edl_session
          /\ current_track' = current_track
          /\ edl_parser' = [edl_parser EXCEPT !.file_position = @ + 1] ]_vars

\* the fields whose line may come without a value, as the field catalog of
\* the file format has them
VoidableNames == { "COMMENTS", "STATE" }

\* what field extraction owes for the line: the field whose name stands left
\* of the colon and tab with the value right of it, or the voidable field
\* named by the line with the empty value, or an error
ClaimedField(line) ==
    LET line_parts == StrSplit(line, ":" \o "\t")
        named == { k \in 1..Len(EDLFieldAllVariants) :
                     field_name(EDLFieldAllVariants[k]) = line_parts[1] }
        void == { k \in 1..Len(EDLFieldAllVariants) :
                    /\ field_name(EDLFieldAllVariants[k]) \in VoidableNames
                    /\ line = field_name(EDLFieldAllVariants[k]) \o ":" }
    IN  IF named # {} /\ Len(line_parts) = 2
        THEN [tag |-> "Ok", field |-> EDLFieldAllVariants[CHOOSE k \in named : TRUE],
              value |-> line_parts[2]]
        ELSE IF void # {}
        THEN [tag |-> "Ok", field |-> EDLFieldAllVariants[CHOOSE k \in void : TRUE],
              value |-> ""]
        ELSE [tag |-> "Err", field |-> "none", value |-> ""]

\* what field extraction gives for the line
ExtractedField(section, line) ==
    LET data == parse_edl_field([current_section |-> section], line)
    IN  IF data.tag = "Ok"
        THEN [tag |-> "Ok", field |-> data.val.field, value |-> data.val.value]
        ELSE [tag |-> "Err", field |-> "none", value |-> ""]

\* the line read by the step was handed to field extraction
FieldLineRead ==
    /\ parse_status = "Running"
    /\ all_lines # <<>>
    /\ all_lines' # all_lines
    /\ ~decisions'[Len(decisions')][2]
    /\ decisions'[Len(decisions')][1] \in {"Header", "TrackListing"}

\* C35: field extraction gives field F with value V only for a line of two
\* parts whose left part is F's name, or for the line 'F:' of a voidable
\* field F (COMMENTS, STATE), which gives F with the empty value: 'STATE:'
\* gives the state field; every other line fails with an error.
C35_FieldExtraction ==
    [][ FieldLineRead =>
          /\ ExtractedField(decisions'[Len(decisions')][1], NextLine) = ClaimedField(NextLine)
          /\ ClaimedField(NextLine).tag = "Err" => parse_status' = "Err" ]_vars

\* the line read by the step gave a track-listing field while no track was
\* open
FieldReadWithoutTrack ==
    /\ FieldLineRead
    /\ decisions'[Len(decisions')][1] = "TrackListing"
    /\ current_track = None
    /\ ExtractedField("TrackListing", NextLine).tag = "Ok"

\* C36: a track-listing field other than TRACK NAME read while no track is
\* open makes parse fail with an error and opens no track; TRACK NAME read
\* while no track is open opens a new track of that name without events.
C36_TrackNameOpensTrack ==
    [][ FieldReadWithoutTrack =>
          IF ExtractedField("TrackListing", NextLine).field = "TrackName"
          THEN /\ parse_status' = "Running"
               /\ current_track' =
                     Some(EDLTrack_with_name(ExtractedField("TrackListing", NextLine).value))
               /\ current_track'.val.events = <<>>
          ELSE /\ parse_status' = "Err"
               /\ current_track' = None ]_vars

\* a line that is not a banner is read while the current section is
\* PluginsListing
PluginsLineRead ==
    /\ parse_status = "Running"
    /\ all_lines # <<>>
    /\ all_lines' # all_lines
    /\ edl_parser.file_position >= EDL_HEADER_LINE_SIZE
    /\ edl_parser.current_section = "PluginsListing"
    /\ BannerMatches(NextLine) = {}

\* the plugin list of the session under construction, and of the session
\* that parse returned, is empty
NoPluginStored ==
    /\ edl_session.plugins = <<>>
    /\ (parse_status = "Ok" => parse_result.val.val.plugins = <<>>)

\* C37 as stated: parse never adds to the session's plugin list; every
\* non-banner line read while the current section is PluginsListing gets no
\* section decision and is skipped, so the plugin list is empty after every
\* successful parse.
C37_NoDecisionInPlugins ==
    /\ [] NoPluginStored
    /\ [][ PluginsLineRead =>
              /\ decisions'[Len(decisions')][1] = "Ignore"
              /\ decisions'[Len(decisions')][2]
              /\ edl_session' = edl_session ]_vars

\* C37 amended: parse never adds to the session's plugin list; every
\* non-banner line read while the current section is PluginsListing is
\* skipped, whatever its cell count: a non-blank line read with the sentinel
\* active gets the decision (PluginsListing, skip, no reset), every other
\* line gets no section decision; the plugin list is empty after every
\* successful parse.
C37_PluginsNeverFilled ==
    /\ [] NoPluginStored
    /\ [][ PluginsLineRead =>
              /\ decisions'[Len(decisions')] =
                    IF edl_parser.section_ended /\ NextLine # ""
                    THEN <<"PluginsListing", TRUE, FALSE>>
                    ELSE <<"Ignore", TRUE,
                           edl_parser'.trailing_new_lines = 0
                             /\ NextLine = "" >>
              /\ parse_status' = "Running"
              /\ edl_session' = edl_session
              /\ current_track' = current_track
              /\ edl_parser'.section_position \in {0, edl_parser.section_position} ]_vars

\* parse has returned a session for a file with a PLUG-INS LISTING table
\* whose header row got no decision and whose plugin row, of six cells, got
\* the sentinel's
C37_Witness ==
    /\ parse_status = "Ok"
    /\ input_file.plugins
    /\ decisions[9] = <<"PluginsListing", TRUE, TRUE>>
    /\ decisions[10] = <<"Ignore", TRUE, FALSE>>
    /\ decisions[11] = <<"PluginsListing", TRUE, FALSE>>
    /\ parse_result.val.val.plugins = <<>>

\* a line that is the placeholder name of a section without banner is about
\* to be read past the file header
PlaceholderNext ==
    /\ parse_status = "Running"
    /\ all_lines # <<>>
    /\ edl_parser.file_position >= EDL_HEADER_LINE_SIZE
    /\ NextLine \in Placeholders

\* C38: only the six letter-spaced banners trigger the banner rule; a line
\* equal to '__header__', '__track_event__', '__ignore__' or '__unknown__'
\* is not treated as a banner: it changes neither the current section nor
\* resets the section position.
C38_PlaceholderIsNoBanner ==
    [][ (PlaceholderNext /\ all_lines' # all_lines) =>
          /\ decisions'[Len(decisions')] \notin
                { <<section, TRUE, TRUE>> : section \in {"Header", "TrackEvent", "Ignore"} }
          /\ ~decisions'[Len(decisions')][3]
          /\ edl_parser'.current_section = edl_parser.current_section
          /\ edl_parser'.section_position >= edl_parser.section_position ]_vars

\* the discriminant of a FrameRate variant, in declaration order
FrameRateDiscriminant(fps) ==
    CASE fps.variant = "Fps24"  -> 0
      [] fps.variant = "Fps25"  -> 1
      [] fps.variant = "Fps30"  -> 2
      [] fps.variant = "Fps48"  -> 3
      [] fps.variant = "Fps50"  -> 4
      [] fps.variant = "Fps60"  -> 5
      [] fps.variant = "Fps120" -> 6

\* #[derive(PartialOrd, Ord)] of Timecode: a before b by the fields in
\* declaration order: data (an array, lexicographically), fps (by variant,
\* then false before true), flags
Timecode_lt(a, b) ==
    IF a.data # b.data THEN LexLess(a.data, b.data)
    ELSE IF a.fps # b.fps
    THEN IF FrameRateDiscriminant(a.fps) # FrameRateDiscriminant(b.fps)
         THEN FrameRateDiscriminant(a.fps) < FrameRateDiscriminant(b.fps)
         ELSE ~a.fps.drop /\ b.fps.drop
    ELSE a.flags < b.flags

\* #[derive(PartialEq, Eq)] of Timecode: all fields equal
Timecode_eq(a, b) == a.data = b.data /\ a.fps = b.fps /\ a.flags = b.flags

\* C39: for two Timecodes of the same frame rate and drop-frame flag with
\* groups in the data-model ranges, the derived comparison agrees with the
\* comparison of the tick counts: a < b exactly when a.to_ticks() <
\* b.to_ticks(), and a == b exactly when the tick counts are equal.
C39_OrderAgreesWithTicks ==
    (/\ tc_op = "to_ticks_pair"
     /\ timecode.fps = timecode_b.fps
     /\ timecode.flags = timecode_b.flags)
        => /\ Timecode_lt(timecode, timecode_b) <=> ticks < ticks_b
           /\ Timecode_eq(timecode, timecode_b) <=> ticks = ticks_b

\* the sections whose lines go to a parse_edl_* table function
RowSections == { "OnlineFiles", "OfflineFiles", "OnlineClips", "TrackEvent", "MarkersListing" }

\* the line read by the step was handed to a table function
TableLineRead ==
    /\ parse_status = "Running"
    /\ all_lines # <<>>
    /\ all_lines' # all_lines
    /\ ~decisions'[Len(decisions')][2]
    /\ decisions'[Len(decisions')][1] \in RowSections

\* the buffer indices written by the copy loop of a table function:
\* for (i, value) in cells.iter().enumerate() { buffer[i] = value.trim(); }
\* which runs only behind the width test
BufferWrites(line) ==
    LET cells == StrSplit(line, "\t")
    IN  IF is_valid_event_table_column_width(Len(cells))
        THEN 0..(Len(cells) - 1)
        ELSE {}

\* the cell whose index the code reads: trimmed, as the copy loop stores it
CellAt(line, i) ==
    LET cells == StrSplit(line, "\t")
    IN  IF i + 1 <= Len(cells) THEN Trim(cells[i + 1]) ELSE ""

\* the cell indices that the assembler reads from the rows of the section:
\* fill_online_files, fill_offline_files, fill_online_clips, the event
\* conversion (with the start of its state slice) and fill_marker_listings
CellReads(section) ==
    CASE section \in {"OnlineFiles", "OfflineFiles", "OnlineClips"} -> {0, 1}
      [] section = "TrackEvent" ->
            {0, 1, 2, 3, 4, 6, Len(EDL_TRACK_EVENT_VALID_COLUMN_WIDTHS) - 1}
      [] section = "MarkersListing" -> 0..5

\* the cell indices that the assembler hands to Timecode::from_str
TimecodeCells(section) ==
    CASE section = "TrackEvent" -> {3, 4}
      [] section = "MarkersListing" -> {1}
      [] OTHER -> {}

\* the group indices written by the loop of from_str:
\* for (i, scalar) in parts.enumerate() { timecode.data[i] = scalar; }
\* which runs only where from_str has not returned or panicked before it
GroupWrites(tc_string, fps) ==
    IF from_str(tc_string, fps).tag = "Ok"
    THEN 0..(Len(GroupTexts(tc_string)) - 1)
    ELSE {}

\* C40: no line causes an out-of-range index: a row copied into the cell
\* buffer has at most as many cells as the buffer has slots (8), every cell
\* index that the assembler reads is below 8, and from_str writes at most 5
\* groups into the group array of the Timecode.
C40_IndicesInRange ==
    [][ TableLineRead =>
          /\ BufferWrites(NextLine) \subseteq 0..(EDL_VALUE_BUFFER_SIZE - 1)
          /\ BufferWrites(Head(all_lines)) \subseteq 0..(EDL_VALUE_BUFFER_SIZE - 1)
          /\ CellReads(decisions'[Len(decisions')][1]) \subseteq 0..(EDL_VALUE_BUFFER_SIZE - 1)
          /\ \A i \in TimecodeCells(decisions'[Len(decisions')][1]) :
                GroupWrites(CellAt(NextLine, i), edl_session.fps)
                    \subseteq 0..(TC_TOTAL_GROUPS - 1) ]_vars

\* parse has returned the session of a file whose event table has the
\* TIMESTAMP column: rows of 8 cells were copied into the 8 slots, and
\* from_str wrote the 4 groups of their timecodes
C40_Witness ==
    /\ parse_status = "Ok"
    /\ input_file.event_table = "timestamp"
    /\ Len(parse_result.val.val.tracks) = 1
    /\ Len(parse_result.val.val.tracks[1].events) = 2
    /\ parse_result.val.val.tracks[1].events[2].time_in.data = <<1, 0, 2, 0, 0>>
    /\ BufferWrites(EventRow(input_file, "1", "2", "clipB", "01:00:02:00", "01:00:03:00")) = 0..7
    /\ GroupWrites("01:00:02:00", edl_session.fps) = 0..3

====
